---------------------------- MODULE Spec2Model ----------------------------
(***************************************************************************)
(* Process Behaviour Chart (XmR) backend: natural process limits, the four *)
(* Western Electric detection rules, throughput aggregation and the HTTP   *)
(* handlers that chain them.                                               *)
(*                                                                         *)
(* Every operation of the backend is a synchronous call that keeps no      *)
(* state of its own.  Init draws the request, the action of the requested  *)
(* operation computes the whole response.  The wall clock read by          *)
(* datetime.now() is state of the environment; a caller may repeat a call  *)
(* with the same request, and then keeps the response it got before.       *)
(*                                                                         *)
(* Python floats are modelled as exact rationals [n, d] in lowest terms    *)
(* (d > 0); data values are integer-valued floats.  IEEE rounding is not   *)
(* modelled.                                                               *)
(***************************************************************************)
EXTENDS Integers, Sequences, FiniteSets, TLC

VARIABLES pc, request, response, clock, earlier

vars == <<pc, request, response, clock, earlier>>

(***************************************************************************)
(* Bounds of the model.                                                    *)
(***************************************************************************)
\* longest baseline handed to calculate_natural_process_limits on its own
MaxLimitsLen == 4
\* baseline values range over -ValueRange .. ValueRange
ValueRange == 2
\* longest series scanned by rules 1 to 3, its values in 0 .. MaxDetectValue
MaxDetectLen == 5
MaxDetectValue == 3
\* longest series scanned by rule 4
MaxRunLen == 9
\* longest cycle-time series sent to calculate_pbc, values in 0 .. MaxPbcValue
MaxPbcLen == 4
MaxPbcValue == 2
\* most completed items sent to calculate_throughput
MaxEvents == 4
\* baselinePeriod ranges over 3 .. MaxBaselinePeriod
MaxBaselinePeriod == 4

\* data lengths from -MaxDataLength to MaxDataLength are recommended for
MaxDataLength == 32

\* data lengths and baseline periods that are validated
MaxValidatedLength == 7

\* quotients and square roots of statistics are kept to 1 / FloatDigits
FloatDigits == 1000

(***************************************************************************)
(* Float arithmetic, as exact rationals.                                   *)
(***************************************************************************)
Abs(x) == IF x < 0 THEN -x ELSE x

RECURSIVE Gcd(_, _)
Gcd(a, b) == IF b = 0 THEN a ELSE Gcd(b, a % b)

\* the float n / d, d > 0
Rat(n, d) == LET g == Gcd(Abs(n), d) IN [n |-> n \div g, d |-> d \div g]

RatInt(k) == [n |-> k, d |-> 1]

RatAdd(a, b) == Rat(a.n * b.d + b.n * a.d, a.d * b.d)

RatSub(a, b) == Rat(a.n * b.d - b.n * a.d, a.d * b.d)

RatMul(a, b) == Rat(a.n * b.n, a.d * b.d)

\* a / k for an integer k > 0
RatDivInt(a, k) == Rat(a.n, a.d * k)

RatLt(a, b) == a.n * b.d < b.n * a.d

RatLe(a, b) == a.n * b.d <= b.n * a.d

\* Python's max(0, x)
Max0(x) == IF x.n > 0 THEN x ELSE RatInt(0)

\* Python's min(1.0, x)
Min1(x) == IF RatLt(RatInt(1), x) THEN RatInt(1) ELSE x

RatAbs(a) == [n |-> Abs(a.n), d |-> a.d]

\* a / b for b # 0
RatDiv(a, b) ==
    IF b.n > 0 THEN Rat(a.n * b.d, a.d * b.n) ELSE Rat(-(a.n * b.d), a.d * (-b.n))

\* the largest k in lo .. hi - 1 with k * k <= x, for lo * lo <= x < hi * hi
RECURSIVE IsqrtBetween(_, _, _)
IsqrtBetween(x, lo, hi) ==
    IF hi - lo <= 1 THEN lo
    ELSE LET mid == (lo + hi) \div 2
         IN  IF mid * mid <= x THEN IsqrtBetween(x, mid, hi)
             ELSE IsqrtBetween(x, lo, mid)

Isqrt(x) == IsqrtBetween(x, 0, 46341)

\* A float that is a quotient of statistics, a square root or a squared
\* deviation is kept to 1 / FloatDigits, rounded down; sums and differences
\* of such floats are exact.  A statistic that lies within a few
\* 1 / FloatDigits of a threshold of the code may fall on the other side of
\* it than the IEEE double does.
Float(x) ==
    Rat((x.n \div x.d) * FloatDigits + ((x.n % x.d) * FloatDigits) \div x.d,
        FloatDigits)

\* a * b of two floats of statistics
Product(a, b) == Float(RatMul(Float(a), Float(b)))

Quotient(a, b) == Float(RatDiv(a, b))

\* math.sqrt / statistics.stdev of a variance x >= 0
Sqrt(x) == Rat(Isqrt(Float(x).n * (FloatDigits \div Float(x).d) * FloatDigits),
               FloatDigits)

(***************************************************************************)
(* Python list helpers.                                                    *)
(***************************************************************************)
RECURSIVE Sum(_)
Sum(s) == IF s = <<>> THEN 0 ELSE Head(s) + Sum(Tail(s))

PyMin(a, b) == IF b < a THEN b ELSE a

ValuesOf(points) == [i \in 1..Len(points) |-> points[i].value]

\* len(set().union(*[signal.dataPoints for signal in signals]))
SignalPoints(signals) ==
    Cardinality(UNION {{signals[k].dataPoints[j] : j \in 1..Len(signals[k].dataPoints)} :
                          k \in 1..Len(signals)})

(***************************************************************************)
(* Outcome of a Python call: a returned value or a raised exception.       *)
(***************************************************************************)
Return(v) == [tag |-> "return", value |-> v]

Raise(exc, msg) == [tag |-> "raise", exc |-> exc, msg |-> msg]

Returned(r) == r.tag = "return"

Raised(r) == r.tag = "raise"

(***************************************************************************)
(* data_models.py                                                          *)
(***************************************************************************)
ProcessLimitsFields == {"average", "upperLimit", "lowerLimit",
                        "averageMovingRange", "upperRangeLimit"}

\* the fields of the pydantic model Signal, all required
SignalFields == {"type", "dataPoints", "description", "severity"}

\* Signal(**kwargs): unknown keywords are ignored, a missing required field
\* fails validation (pydantic's ValidationError is a ValueError)
Signal(kwargs) ==
    IF SignalFields \subseteq DOMAIN kwargs
    THEN Return([f \in SignalFields |-> kwargs[f]])
    ELSE Raise("ValidationError", "Signal: field required")

(***************************************************************************)
(* PBCCalculator                                                           *)
(***************************************************************************)
\* a mistyped X-chart constant
XChartFactor_Three == Rat(3, 1)

\* Shewhart's scaling constants, the float literals 2.66 and 3.27
XChartFactor == Rat(266, 100)

MRChartFactor == Rat(327, 100)

calculate_moving_ranges(data) ==
    IF Len(data) < 2
    THEN <<>>
    ELSE [i \in 1..(Len(data) - 1) |-> Abs(data[i + 1] - data[i])]

\* a slip in the sign of the lower limit
LowerLimitOf_PlusSign(average, average_moving_range) ==
    Max0(RatAdd(average, RatMul(XChartFactor, average_moving_range)))

LowerLimitOf(average, average_moving_range) ==
    Max0(RatSub(average, RatMul(XChartFactor, average_moving_range)))

UpperLimitOf(average, average_moving_range) ==
    RatAdd(average, RatMul(XChartFactor, average_moving_range))

\* n / d (d > 0) rounded to the nearest integer, ties to the even one
RoundHalfEven(n, d) ==
    LET q == n \div d
        r == n - q * d
    IN  IF 2 * r < d THEN q
        ELSE IF 2 * r > d THEN q + 1
        ELSE IF q % 2 = 0 THEN q ELSE q + 1

\* a quotient that is never rounded
Double_Exact(x, scale) == x

\* the double a float operation yields for the exact result x.  Values of
\* scale "unit" stand for themselves and the rounding of the last of 53 bits
\* is left out; values of scale "subnormal" count in the smallest positive
\* double, 2^-1074 (5e-324), where sums and differences are exact and a
\* quotient or product is rounded to a whole count, so that a positive
\* result can become 0.0
Double(x, scale) ==
    IF scale = "subnormal" THEN RatInt(RoundHalfEven(x.n, x.d)) ELSE x

\* an off-by-one in the length check
MinDataPoints_Two == 3 - 1

\* the fewest data points the calculator accepts
MinDataPoints == 3

\* calculate_natural_process_limits on doubles of the given scale
NaturalProcessLimits(data, scale) ==
    IF Len(data) < MinDataPoints
    THEN Raise("ValueError", "Minimum 3 data points required for any calculation")
    ELSE
    LET average       == Double(Rat(Sum(data), Len(data)), scale)
        moving_ranges == calculate_moving_ranges(data)
    IN
    IF moving_ranges = <<>>
    THEN Raise("ValueError", "Unable to calculate moving ranges - insufficient data")
    ELSE
    IF \A i \in 1..Len(moving_ranges) : moving_ranges[i] = 0
    THEN Raise("ValueError", "All moving ranges are zero - no variation detected in data")
    ELSE
    LET average_moving_range ==
            Double(Rat(Sum(moving_ranges), Len(moving_ranges)), scale)
    IN
    IF average_moving_range = RatInt(0)
    THEN Raise("ValueError", "Average moving range is zero - cannot calculate limits")
    ELSE Return([average            |-> average,
                 upperLimit         |->
                     Double(UpperLimitOf(average, average_moving_range), scale),
                 lowerLimit         |->
                     Double(LowerLimitOf(average, average_moving_range), scale),
                 averageMovingRange |-> average_moving_range,
                 upperRangeLimit    |->
                     Double(RatMul(MRChartFactor, average_moving_range), scale)])

calculate_natural_process_limits(data) == NaturalProcessLimits(data, "unit")

calculate_sigma_lines(limits) ==
    LET sigma_value == RatDivInt(RatMul(limits.averageMovingRange, XChartFactor), 3)
    IN  [oneSigmaUpper |-> RatAdd(limits.average, sigma_value),
         oneSigmaLower |-> Max0(RatSub(limits.average, sigma_value)),
         twoSigmaUpper |-> RatAdd(limits.average, RatMul(RatInt(2), sigma_value)),
         twoSigmaLower |-> Max0(RatSub(limits.average, RatMul(RatInt(2), sigma_value)))]

validate_baseline_period(data_length, baseline_period) ==
    IF baseline_period < 3
    THEN Raise("ValueError", "Minimum 3 data points required for any baseline calculation")
    ELSE IF baseline_period > data_length
    THEN Raise("ValueError", "Baseline period cannot exceed data length")
    ELSE Return(TRUE)

\* the recommendation without the floor of 3 for short data
recommend_baseline_period_NoFloor(data_length) ==
    IF data_length <= 20 THEN data_length ELSE 20

recommend_baseline_period(data_length) ==
    IF data_length < 6
    THEN (IF data_length < 3 THEN 3 ELSE data_length)
    ELSE IF data_length < 10 THEN data_length
    ELSE IF data_length <= 20 THEN data_length
    ELSE 20

(***************************************************************************)
(* SignalDetector                                                          *)
(***************************************************************************)
\* enumerate() and range() count from 0, sequences here from 1
PyIndex_OneBased(k) == k

PyIndex(k) == k - 1

\* list(range(lo, hi))
PyRange(lo, hi) == [j \in 1..(hi - lo) |-> lo + j - 1]

\* signals.append(Signal(...)) inside a scan: the first exception ends it
AppendSignal(signals, made) ==
    IF Raised(signals) THEN signals
    ELSE IF Raised(made) THEN made
    ELSE Return(Append(signals.value, made.value))

\* signals.extend(scan): an exception of the scan propagates
ExtendSignals(signals, scan) ==
    IF Raised(signals) THEN signals
    ELSE IF Raised(scan) THEN scan
    ELSE Return(signals.value \o scan.value)

\* the names bound in the body of class SignalDetector
SignalDetectorAttributes ==
    {"detect_all_signals", "detect_rule1_signals", "detect_rule2_signals",
     "detect_rule3_signals", "detect_rule4_signals"}

\* the module-level function that follows the class
_calculate_sigma_lines(limits) ==
    LET sigma_value == RatDivInt(RatMul(limits.averageMovingRange, XChartFactor), 3)
    IN  [one_sigma_upper |-> RatAdd(limits.average, sigma_value),
         one_sigma_lower |-> Max0(RatSub(limits.average, sigma_value)),
         two_sigma_upper |-> RatAdd(limits.average, RatMul(RatInt(2), sigma_value)),
         two_sigma_lower |-> Max0(RatSub(limits.average, RatMul(RatInt(2), sigma_value)))]

\* a non-strict comparison against the limits
OutsideLimits_NonStrict(value, limits) ==
    \/ RatLe(limits.upperLimit, RatInt(value))
    \/ RatLe(RatInt(value), limits.lowerLimit)

OutsideLimits(value, limits) ==
    \/ RatLt(limits.upperLimit, RatInt(value))
    \/ RatLt(RatInt(value), limits.lowerLimit)

\* one iteration of the loop of detect_rule1_signals, at the k-th point
Rule1Step(signals, data, limits, k) ==
    IF Raised(signals) THEN signals
    ELSE IF OutsideLimits(data[k], limits)
    THEN AppendSignal(signals,
             Signal([type        |-> "rule1",
                     dataPoints  |-> <<PyIndex(k)>>,
                     description |-> "Point outside natural process limits - dominant assignable cause",
                     severity    |-> "high"]))
    ELSE signals

\* the loop of detect_rule1_signals from the k-th point on
RECURSIVE Rule1Scan(_, _, _, _)
Rule1Scan(signals, data, limits, k) ==
    IF k > Len(data) THEN signals
    ELSE Rule1Scan(Rule1Step(signals, data, limits, k), data, limits, k + 1)

detect_rule1_signals(data, limits) == Rule1Scan(Return(<<>>), data, limits, 1)

\* sum(1 for val in window if val > line)
CountAbove(data, first, size, line) ==
    Cardinality({j \in first..(first + size - 1) : RatLt(line, RatInt(data[j]))})

\* sum(1 for val in window if val < line)
CountBelow(data, first, size, line) ==
    Cardinality({j \in first..(first + size - 1) : RatLt(RatInt(data[j]), line)})

\* the Signal(...) calls of rules 2 to 4 pass data_points, not dataPoints
WindowSignal(type, indices, description, severity) ==
    Signal([type        |-> type,
            data_points |-> indices,
            description |-> description,
            severity    |-> severity])

\* one iteration of the loop shared by detect_rule2_signals and
\* detect_rule3_signals, at the k-th window: the upper side, then the lower
WindowStep(signals, data, size, needed, upper, lower, type, description, k) ==
    LET indices == PyRange(PyIndex(k), PyIndex(k) + size)
        made    == WindowSignal(type, indices, description, "moderate")
        after_upper ==
            IF CountAbove(data, k, size, upper) >= needed
            THEN AppendSignal(signals, made) ELSE signals
    IN  IF Raised(signals) THEN signals
        ELSE IF Raised(after_upper) THEN after_upper
        ELSE IF CountBelow(data, k, size, lower) >= needed
        THEN AppendSignal(after_upper, made) ELSE after_upper

\* the loop from the k-th window on; last is the number of windows
RECURSIVE WindowScan(_, _, _, _, _, _, _, _, _, _)
WindowScan(signals, data, size, needed, upper, lower, type, description, k, last) ==
    IF k > last THEN signals
    ELSE WindowScan(WindowStep(signals, data, size, needed, upper, lower,
                               type, description, k),
                    data, size, needed, upper, lower, type, description, k + 1, last)

detect_rule2_signals(data, average, sigma_lines) ==
    WindowScan(Return(<<>>), data, 3, 2,
               sigma_lines.two_sigma_upper, sigma_lines.two_sigma_lower,
               "rule2", "Two out of three points beyond 2-sigma - moderate process change",
               1, Len(data) - 2)

detect_rule3_signals(data, average, sigma_lines) ==
    WindowScan(Return(<<>>), data, 5, 4,
               sigma_lines.one_sigma_upper, sigma_lines.one_sigma_lower,
               "rule3", "Four out of five points beyond 1-sigma - small sustained shift",
               1, Len(data) - 4)

RunSignal(run_start, current_run) ==
    WindowSignal("rule4", PyRange(run_start, run_start + current_run),
                 "Eight successive values on same side - sustained shift", "low")

\* one iteration of the loop of detect_rule4_signals, at the k-th point
Rule4Step(st, data, average, k) ==
    LET side == IF RatLt(average, RatInt(data[k])) THEN "above" ELSE "below"
    IN  IF Raised(st.signals) THEN st
        ELSE IF side = st.current_side
        THEN [st EXCEPT !.current_run = @ + 1]
        ELSE [signals      |-> IF st.current_run >= 8
                               THEN AppendSignal(st.signals,
                                        RunSignal(st.run_start, st.current_run))
                               ELSE st.signals,
              current_run  |-> 1,
              current_side |-> side,
              run_start    |-> PyIndex(k)]

\* the loop of detect_rule4_signals from the k-th point on
RECURSIVE Rule4Scan(_, _, _, _)
Rule4Scan(st, data, average, k) ==
    IF k > Len(data) THEN st
    ELSE Rule4Scan(Rule4Step(st, data, average, k), data, average, k + 1)

detect_rule4_signals(data, average) ==
    LET st == Rule4Scan([signals |-> Return(<<>>), current_run |-> 0,
                         current_side |-> "None", run_start |-> 0],
                        data, average, 1)
    IN  IF Raised(st.signals) THEN st.signals
        ELSE IF st.current_run >= 8
        THEN AppendSignal(st.signals, RunSignal(st.run_start, st.current_run))
        ELSE st.signals

detect_all_signals(data, limits) ==
    IF "_calculate_sigma_lines" \notin SignalDetectorAttributes
    THEN Raise("AttributeError",
               "'SignalDetector' object has no attribute '_calculate_sigma_lines'")
    ELSE
    LET sigma_lines == _calculate_sigma_lines(limits)
        s1 == ExtendSignals(Return(<<>>), detect_rule1_signals(data, limits))
        s2 == ExtendSignals(s1, detect_rule2_signals(data, limits.average, sigma_lines))
        s3 == ExtendSignals(s2, detect_rule3_signals(data, limits.average, sigma_lines))
    IN  IF Raised(s1) THEN s1
        ELSE IF Raised(s2) THEN s2
        ELSE IF Raised(s3) THEN s3
        ELSE ExtendSignals(s3, detect_rule4_signals(data, limits.average))

(***************************************************************************)
(* datetime.  A timestamp is a whole number of days since Monday           *)
(* 2024-01-01 00:00 (the base date of the router's throughput sample);     *)
(* times of day are not modelled.                                          *)
(***************************************************************************)
EpochYear == 2024

IsLeap(year) == year % 4 = 0 /\ (year % 100 # 0 \/ year % 400 = 0)

DaysInMonth(year, month) ==
    IF month = 2 THEN (IF IsLeap(year) THEN 29 ELSE 28)
    ELSE IF month \in {4, 6, 9, 11} THEN 30 ELSE 31

\* the calendar date of the day `rest` days after the first of year-month
RECURSIVE DateFrom(_, _, _)
DateFrom(year, month, rest) ==
    IF rest < DaysInMonth(year, month)
    THEN [year |-> year, month |-> month, day |-> rest + 1]
    ELSE IF month = 12
    THEN DateFrom(year + 1, 1, rest - DaysInMonth(year, month))
    ELSE DateFrom(year, month + 1, rest - DaysInMonth(year, month))

ToDate(t) == DateFrom(EpochYear, 1, t)

\* days from the epoch to the first of year-month
RECURSIVE DaysBefore(_, _)
DaysBefore(year, month) ==
    IF year = EpochYear /\ month = 1 THEN 0
    ELSE IF month = 1
    THEN DaysBefore(year - 1, 12) + DaysInMonth(year - 1, 12)
    ELSE DaysBefore(year, month - 1) + DaysInMonth(year, month - 1)

FromDate(date) == DaysBefore(date.year, date.month) + date.day - 1

\* date.weekday(): Monday is 0
Weekday(t) == t % 7

(***************************************************************************)
(* ThroughputCalculator                                                    *)
(***************************************************************************)
Periods == {"daily", "weekly", "monthly"}

_get_period_start(date, period) ==
    CASE period = "daily"   -> date
      [] period = "weekly"  -> date - Weekday(date)
      [] period = "monthly" -> FromDate([ToDate(date) EXCEPT !.day = 1])

_get_period_end(period_start, period) ==
    CASE period = "daily"   -> period_start + 1
      [] period = "weekly"  -> period_start + 7
      [] period = "monthly" ->
            IF ToDate(period_start).month = 12
            THEN FromDate([ToDate(period_start) EXCEPT !.year = @ + 1, !.month = 1])
            ELSE FromDate([ToDate(period_start) EXCEPT !.month = @ + 1])

\* the items of one period, the end of the period included
RECURSIVE ItemsIn_Inclusive(_, _, _)
ItemsIn_Inclusive(completion_data, current_start, period_end) ==
    IF completion_data = <<>> THEN <<>>
    ELSE LET item == Head(completion_data)
             rest == ItemsIn_Inclusive(Tail(completion_data), current_start, period_end)
         IN  IF current_start <= item.timestamp /\ item.timestamp <= period_end
             THEN <<item>> \o rest ELSE rest

\* [x for x in s if P(x)], for the items of one period
RECURSIVE ItemsIn(_, _, _)
ItemsIn(completion_data, current_start, period_end) ==
    IF completion_data = <<>> THEN <<>>
    ELSE LET item == Head(completion_data)
             rest == ItemsIn(Tail(completion_data), current_start, period_end)
         IN  IF current_start <= item.timestamp /\ item.timestamp < period_end
             THEN <<item>> \o rest ELSE rest

\* item.label or f"Item-{i}"
ItemLabel(item, i) ==
    IF item.label = "None" \/ item.label = "" THEN "Item-" \o ToString(i) ELSE item.label

ThroughputDataPoint(current_start, period_end, items_in_period, period) ==
    [periodStart    |-> current_start,
     periodEnd      |-> period_end,
     itemCount      |-> Len(items_in_period),
     itemsCompleted |-> [i \in 1..Len(items_in_period) |->
                            ItemLabel(items_in_period[i], PyIndex(i))],
     period         |-> period]

\* the while loop of _group_by_period that walks the periods
RECURSIVE PeriodWalk(_, _, _, _, _)
PeriodWalk(periods, completion_data, period, current_start, end_date) ==
    IF ~(current_start <= end_date) THEN periods
    ELSE LET period_end == _get_period_end(current_start, period)
         IN  PeriodWalk(
                 Append(periods,
                        ThroughputDataPoint(current_start, period_end,
                            ItemsIn(completion_data, current_start, period_end),
                            period)),
                 completion_data, period, period_end, end_date)

\* the empty periods dropped wherever they are
PopEmpty_Everywhere(periods) == SelectSeq(periods, LAMBDA point : point.itemCount # 0)

\* the while loop that pops the empty periods at the end
RECURSIVE PopEmpty(_)
PopEmpty(periods) ==
    IF periods # <<>> /\ periods[Len(periods)].itemCount = 0
    THEN PopEmpty(SubSeq(periods, 1, Len(periods) - 1))
    ELSE periods

_group_by_period(completion_data, period) ==
    IF completion_data = <<>> THEN <<>>
    ELSE LET start_date == completion_data[1].timestamp
             end_date   == completion_data[Len(completion_data)].timestamp
         IN  PopEmpty(PeriodWalk(<<>>, completion_data, period,
                                 _get_period_start(start_date, period), end_date))

\* sorted(completion_data, key=lambda x: x.timestamp), a stable sort:
\* x is inserted after the items of the sorted list that are not later
RECURSIVE InsertByTimestamp(_, _)
InsertByTimestamp(s, x) ==
    IF s = <<>> THEN <<x>>
    ELSE IF x.timestamp < Head(s).timestamp THEN <<x>> \o s
    ELSE <<Head(s)>> \o InsertByTimestamp(Tail(s), x)

RECURSIVE SortedByTimestamp(_)
SortedByTimestamp(s) ==
    IF s = <<>> THEN <<>>
    ELSE InsertByTimestamp(SortedByTimestamp(SubSeq(s, 1, Len(s) - 1)), s[Len(s)])

\* sorted(xs) for numbers
RECURSIVE InsertNumber(_, _)
InsertNumber(s, x) ==
    IF s = <<>> THEN <<x>>
    ELSE IF x < Head(s) THEN <<x>> \o s
    ELSE <<Head(s)>> \o InsertNumber(Tail(s), x)

RECURSIVE SortedNumbers(_)
SortedNumbers(xs) ==
    IF xs = <<>> THEN <<>>
    ELSE InsertNumber(SortedNumbers(Tail(xs)), Head(xs))

\* statistics.mean
Mean(xs) == Rat(Sum(xs), Len(xs))

\* statistics.median
Median(xs) ==
    LET sorted == SortedNumbers(xs)
        n      == Len(xs)
    IN  IF n % 2 = 1 THEN RatInt(sorted[(n \div 2) + 1])
        ELSE Rat(sorted[n \div 2] + sorted[(n \div 2) + 1], 2)

MinOf(xs) == CHOOSE x \in {xs[i] : i \in 1..Len(xs)} : \A i \in 1..Len(xs) : x <= xs[i]

MaxOf(xs) == CHOOSE x \in {xs[i] : i \in 1..Len(xs)} : \A i \in 1..Len(xs) : x >= xs[i]

\* statistics.stdev(xs) ** 2, the sample variance (len(xs) > 1):
\* sum((x - mean)^2) / (n - 1) = (n * sum(x^2) - sum(x)^2) / (n * (n - 1))
Variance(xs) ==
    LET n == Len(xs)
    IN  Rat(n * Sum([i \in 1..n |-> xs[i] * xs[i]]) - Sum(xs) * Sum(xs), n * (n - 1))

\* A predictability score max(0, 1 - std_dev / mean) is irrational in
\* general; it is kept exactly as the rational q in [0, 1] with
\* score = 1 - sqrt(q), q = min(1, variance / mean^2).
ScoreOneMinusSqrt(q) ==
    [one_minus_sqrt_of |-> IF RatLt(RatInt(1), q) THEN RatInt(1) ELSE q]

\* score < bound, for a rational bound in [0, 1]
ScoreLt(score, bound) ==
    RatLt(RatMul(RatSub(RatInt(1), bound), RatSub(RatInt(1), bound)),
          score.one_minus_sqrt_of)

calculate_throughput_analysis(completion_data, period) ==
    IF Len(completion_data) < 3
    THEN Raise("ValueError", "Minimum 3 completed items required for throughput analysis")
    ELSE
    LET sorted_data        == SortedByTimestamp(completion_data)
        throughput_periods == _group_by_period(sorted_data, period)
        item_counts        == [i \in 1..Len(throughput_periods) |->
                                  throughput_periods[i].itemCount]
    IN
    IF item_counts = <<>>
    THEN Raise("ValueError", "No throughput periods found")
    ELSE
    LET avg_throughput == Mean(item_counts)
        variance == IF Len(item_counts) > 1 THEN Variance(item_counts) ELSE RatInt(0)
        predictability_score ==
            IF avg_throughput.n > 0
            THEN ScoreOneMinusSqrt(
                     Rat(variance.n * avg_throughput.d * avg_throughput.d,
                         variance.d * avg_throughput.n * avg_throughput.n))
            ELSE ScoreOneMinusSqrt(RatInt(1))
    IN  Return([throughputData      |-> throughput_periods,
                averageThroughput   |-> avg_throughput,
                medianThroughput    |-> Median(item_counts),
                minThroughput       |-> MinOf(item_counts),
                maxThroughput       |-> MaxOf(item_counts),
                period              |-> period,
                totalPeriods        |-> Len(throughput_periods),
                totalItemsCompleted |-> Len(completion_data),
                predictabilityScore |-> predictability_score])

\* period.value.title()
Title(period) ==
    CASE period = "daily" -> "Daily" [] period = "weekly" -> "Weekly"
      [] period = "monthly" -> "Monthly"

create_throughput_pbc_data(throughput_analysis) ==
    [i \in 1..Len(throughput_analysis.throughputData) |->
        LET period_data == throughput_analysis.throughputData[i] IN
        [timestamp |-> RatAdd(RatInt(period_data.periodStart),
                              Rat(period_data.periodEnd - period_data.periodStart, 2)),
         value     |-> period_data.itemCount,
         label     |-> Title(period_data.period) \o " " \o ToString(i) \o ": "
                           \o ToString(period_data.itemCount) \o " items"]]

generate_throughput_recommendations(throughput_analysis, signals) ==
    (IF ScoreLt(throughput_analysis.predictabilityScore, Rat(7, 10))
     THEN <<"Low throughput predictability detected. Consider investigating process variation "
            \o "and work intake patterns to improve flow stability.">>
     ELSE <<>>)
    \o (IF RatLt(RatMul(throughput_analysis.averageThroughput, RatInt(2)),
                 RatInt(throughput_analysis.maxThroughput))
        THEN <<"High throughput variation detected. This may indicate batching behavior or "
               \o "irregular work intake. Consider implementing WIP limits and steady work intake.">>
        ELSE <<>>)
    \o (IF signals # <<>> /\ \E k \in 1..Len(signals) : signals[k].severity = "high"
        THEN <<"High-severity signals detected in throughput data. Investigate process changes "
               \o "or external factors affecting delivery capacity during these periods.">>
        ELSE <<>>)
    \o (IF RatLt(RatMul(RatInt(throughput_analysis.totalPeriods), Rat(2, 10)),
                 RatInt(Cardinality({i \in 1..Len(throughput_analysis.throughputData) :
                            throughput_analysis.throughputData[i].itemCount = 0})))
        THEN <<"Frequent periods with zero throughput detected. This may indicate batching, "
               \o "process bottlenecks, or irregular work intake patterns.">>
        ELSE <<>>)
    \o (IF throughput_analysis.totalPeriods < 10
        THEN <<"Consider collecting more throughput data. Current "
               \o ToString(throughput_analysis.totalPeriods)
               \o " periods may not provide sufficient baseline for reliable forecasting.">>
        ELSE <<>>)

(***************************************************************************)
(* DynamicBaselineCalculator                                               *)
(***************************************************************************)
min_baseline == 6

max_baseline == 20

optimal_baseline == 12

\* statistics.stdev of integer-valued floats, len(xs) > 1
stdev(xs) == Sqrt(Variance(xs))

RECURSIVE RatSum(_)
RatSum(s) == IF s = <<>> THEN RatInt(0) ELSE RatAdd(Head(s), RatSum(Tail(s)))

\* statistics.mean of floats
RatMean(xs) ==
    Quotient(RatSum([i \in 1..Len(xs) |-> Float(xs[i])]), RatInt(Len(xs)))

\* statistics.variance of floats, len(xs) > 1
RatVariance(xs) ==
    LET mean == RatMean(xs)
    IN  Quotient(RatSum([i \in 1..Len(xs) |->
                     Product(RatSub(xs[i], mean), RatSub(xs[i], mean))]),
                 RatInt(Len(xs) - 1))

\* values[lo:hi] of Python, 0 <= lo
Slice(values, lo, hi) ==
    SubSeq(values, lo + 1, IF hi > Len(values) THEN Len(values) ELSE hi)

\* the slope of the least-squares line through (0, ys[1]), (1, ys[2]), ...
\* as the pair of its numerator and denominator
SlopeParts(ys) ==
    LET n      == Len(ys)
        sum_x  == Sum([i \in 1..n |-> PyIndex(i)])
        sum_y  == RatSum(ys)
        sum_xy == RatSum([i \in 1..n |-> RatMul(RatInt(PyIndex(i)), ys[i])])
        sum_x2 == Sum([i \in 1..n |-> PyIndex(i) * PyIndex(i)])
    IN  [num |-> RatSub(RatMul(RatInt(n), sum_xy), RatMul(RatInt(sum_x), sum_y)),
         den |-> n * sum_x2 - sum_x * sum_x]

_calculate_trend_stability(values) ==
    IF Len(values) < 3 THEN RatInt(1)
    ELSE LET parts == SlopeParts([i \in 1..Len(values) |-> RatInt(values[i])])
             data_range == MaxOf(values) - MinOf(values)
         IN  IF parts.den = 0 THEN RatInt(1)
             ELSE IF data_range = 0 THEN RatInt(1)
             ELSE LET slope == RatDiv(parts.num, RatInt(parts.den))
                      normalized_slope ==
                          Quotient(RatAbs(slope), Rat(data_range, Len(values)))
                  IN  Max0(RatSub(RatInt(1), normalized_slope))

\* the coefficient of variation of _calculate_data_stability
CoefficientOfVariation(values) ==
    IF Sum(values) = 0 THEN RatInt(0)
    ELSE Quotient(stdev(values), Mean(values))

\* the moving range consistency of _calculate_data_stability
MovingRangeConsistency(moving_ranges) ==
    IF Len(moving_ranges) > 1 /\ Sum(moving_ranges) > 0
    THEN Max0(RatSub(RatInt(1), Quotient(stdev(moving_ranges), Mean(moving_ranges))))
    ELSE RatInt(1)

\* the weighted average of the three components, kept in [0, 1]
CombineScores(cv, mr_consistency, trend_score) ==
    Max0(Min1(RatAdd(RatAdd(RatMul(RatSub(RatInt(1), Min1(cv)), Rat(4, 10)),
                            RatMul(mr_consistency, Rat(4, 10))),
                     RatMul(trend_score, Rat(2, 10)))))

_calculate_data_stability(values) ==
    IF Len(values) < 3 THEN RatInt(0)
    ELSE CombineScores(CoefficientOfVariation(values),
                       MovingRangeConsistency(
                           [i \in 1..(Len(values) - 1) |-> Abs(values[i + 1] - values[i])]),
                       _calculate_trend_stability(values))

_classify_stability(stability_score) ==
    IF RatLe(Rat(8, 10), stability_score) THEN "stable"
    ELSE IF RatLe(Rat(6, 10), stability_score) THEN "improving"
    ELSE IF RatLe(Rat(4, 10), stability_score) THEN "degrading"
    ELSE "unstable"

\* the comparison of the windows before and after index i
SignificantShift(before_window, after_window) ==
    /\ Len(before_window) >= 3
    /\ Len(after_window) >= 3
    /\ LET before_std == stdev(before_window)
           after_std  == stdev(after_window)
           pooled_std == RatDivInt(RatAdd(before_std, after_std), 2)
       IN  /\ pooled_std.n > 0
           /\ RatLt(RatInt(2),
                    Quotient(RatAbs(RatSub(Mean(after_window), Mean(before_window))),
                             pooled_std))

\* the loop over range(window_size, len(values) - window_size)
RECURSIVE ChangeScan(_, _, _, _)
ChangeScan(change_points, values, window_size, i) ==
    IF i >= Len(values) - window_size THEN change_points
    ELSE ChangeScan(
             IF SignificantShift(Slice(values, IF i - window_size < 0 THEN 0
                                               ELSE i - window_size, i),
                                 Slice(values, i, i + window_size))
             THEN Append(change_points, i) ELSE change_points,
             values, window_size, i + 1)

\* the loop that removes nearby change points
RECURSIVE FilterNearby(_, _)
FilterNearby(filtered_changes, change_points) ==
    IF change_points = <<>> THEN filtered_changes
    ELSE LET cp == Head(change_points)
         IN  FilterNearby(
                 IF ~ \E k \in 1..Len(filtered_changes) : Abs(cp - filtered_changes[k]) < 3
                 THEN Append(filtered_changes, cp) ELSE filtered_changes,
                 Tail(change_points))

\* change detection with windows of 5
_detect_process_changes_Narrow(values) ==
    IF Len(values) < 12 THEN <<>>
    ELSE LET window_size == IF Len(values) \div 4 > 5 THEN Len(values) \div 4 ELSE 5
         IN  FilterNearby(<<>>, ChangeScan(<<>>, values, window_size, window_size))

_detect_process_changes(values) ==
    IF Len(values) < 12 THEN <<>>
    ELSE LET window_size == IF Len(values) \div 4 > 6 THEN Len(values) \div 4 ELSE 6
         IN  FilterNearby(<<>>, ChangeScan(<<>>, values, window_size, window_size))

\* groups[key]: the values of the points with that key, in the order of
\* the data; keys[i] is the key of data[i]
GroupValues(data, keys, key) ==
    LET members == SelectSeq([i \in 1..Len(data) |-> i], LAMBDA i : keys[i] = key)
    IN  [k \in 1..Len(members) |-> data[members[k]].value]

\* the groups that hold more than one value, in the order of their keys
RECURSIVE GroupsWithSeveral(_, _, _, _)
GroupsWithSeveral(data, keys, key, last) ==
    IF key > last THEN <<>>
    ELSE (IF Len(GroupValues(data, keys, key)) > 1
          THEN <<GroupValues(data, keys, key)>> ELSE <<>>)
         \o GroupsWithSeveral(data, keys, key + 1, last)

\* between-group variance / (between-group + mean within-group variance)
SeasonalityStrength(groups, groups_needed) ==
    IF Len(groups) < groups_needed THEN RatInt(0)
    ELSE LET means       == [g \in 1..Len(groups) |-> Mean(groups[g])]
             within_vars == [g \in 1..Len(groups) |-> Variance(groups[g])]
             between_var == IF Len(means) > 1 THEN RatVariance(means) ELSE RatInt(0)
             total_var   == RatAdd(between_var, RatMean(within_vars))
         IN  IF total_var.n > 0 THEN Min1(Quotient(between_var, total_var))
             ELSE RatInt(0)

\* point.timestamp.weekday()
DayOfWeek(point) == Weekday(point.timestamp)

\* (point.timestamp.day - 1) // 7 + 1
WeekOfMonth(point) == ((ToDate(point.timestamp).day - 1) \div 7) + 1

_calculate_weekly_seasonality(data) ==
    IF Len(data) < 14 THEN RatInt(0)
    ELSE SeasonalityStrength(
             GroupsWithSeveral(data, [i \in 1..Len(data) |-> DayOfWeek(data[i])], 0, 6), 3)

_calculate_monthly_seasonality(data) ==
    IF Len(data) < 60 THEN RatInt(0)
    ELSE SeasonalityStrength(
             GroupsWithSeveral(data, [i \in 1..Len(data) |-> WeekOfMonth(data[i])], 1, 4), 2)

\* the dominant pattern and the patterns detected, from the two strengths
SeasonalityOf(weekly_strength, monthly_strength) ==
    [dominant_pattern |->
         IF RatLt(Rat(3, 10), weekly_strength) THEN "weekly"
         ELSE IF RatLt(Rat(3, 10), monthly_strength) THEN "monthly"
         ELSE "none",
     weekly_strength   |-> weekly_strength,
     monthly_strength  |-> monthly_strength,
     patterns_detected |->
         (IF RatLt(Rat(2, 10), weekly_strength) THEN <<"weekly">> ELSE <<>>)
         \o (IF RatLt(Rat(2, 10), monthly_strength) THEN <<"monthly">> ELSE <<>>)]

_analyze_seasonality(data) ==
    IF Len(data) < 14
    THEN [dominant_pattern |-> "none", weekly_strength |-> RatInt(0),
          monthly_strength |-> RatInt(0), patterns_detected |-> <<>>]
    ELSE SeasonalityOf(_calculate_weekly_seasonality(data),
                       IF Len(data) >= 60 THEN _calculate_monthly_seasonality(data)
                       ELSE RatInt(0))

\* the try block of _calculate_signal_density, after the limits
DensityOfSignals(values, detected) ==
    IF Raised(detected) THEN detected
    ELSE Return(Rat(SignalPoints(detected.value), Len(values)))

\* the try block of _calculate_signal_density
DensityOfLimits(values, calculated) ==
    IF Raised(calculated) THEN calculated
    ELSE DensityOfSignals(values, detect_all_signals(values, calculated.value))

DensityOrZero_One(tried) == IF Raised(tried) THEN RatInt(1) ELSE tried.value

\* except Exception: return 0.0
DensityOrZero(tried) == IF Raised(tried) THEN RatInt(0) ELSE tried.value

_calculate_signal_density(values) ==
    IF Len(values) < min_baseline THEN RatInt(0)
    ELSE DensityOrZero(
             DensityOfLimits(values,
                 calculate_natural_process_limits(
                     Slice(values, 0, PyMin(optimal_baseline, Len(values))))))

\* the trend of the moving standard deviations
TrendOfDeviations(moving_stds) ==
    IF Len(moving_stds) < 3 THEN "stable"
    ELSE LET parts == SlopeParts(moving_stds) IN
         IF parts.den = 0 THEN "stable"
         ELSE LET slope   == Quotient(parts.num, RatInt(parts.den))
                  avg_std == RatMean(moving_stds)
                  normalized_slope ==
                      IF avg_std.n > 0
                      THEN Quotient(slope, Quotient(avg_std, RatInt(Len(moving_stds))))
                      ELSE RatInt(0)
              IN  IF RatLt(Rat(1, 10), normalized_slope) THEN "increasing"
                  ELSE IF RatLt(normalized_slope, Rat(-1, 10)) THEN "decreasing"
                  ELSE "stable"

\* window_size = max(5, len(values) // 4)
VariationWindowSize(values) ==
    IF Len(values) \div 4 > 5 THEN Len(values) \div 4 ELSE 5

\* the windows values[i - window_size : i + window_size] of the loop
\* for i in range(window_size, len(values) - window_size + 1)
VariationWindows(values) ==
    LET window_size == VariationWindowSize(values)
        starts      == PyRange(window_size, Len(values) - window_size + 1)
    IN  [k \in 1..Len(starts) |->
            Slice(values, starts[k] - window_size, starts[k] + window_size)]

_analyze_variation_trend(values) ==
    IF Len(values) < 10 THEN "stable"
    ELSE LET windows == VariationWindows(values)
         IN  TrendOfDeviations(
                 [k \in 1..Len(windows) |->
                     IF Len(windows[k]) > 1 THEN stdev(windows[k]) ELSE RatInt(0)])

\* f"{x:.2f}" for a float x >= 0
Format2f(x) ==
    LET scaled     == x.n * 100
        low        == scaled \div x.d
        twice      == 2 * (scaled % x.d)
        hundredths == IF twice < x.d THEN low
                      ELSE IF twice > x.d THEN low + 1
                      ELSE IF low % 2 = 0 THEN low ELSE low + 1
    IN  ToString(hundredths \div 100) \o "."
            \o ToString((hundredths % 100) \div 10) \o ToString(hundredths % 10)

\* the branch taken when change points were detected, with > for >=
ChangeBasedPeriod_Strict(n, most_recent_change) ==
    IF n - most_recent_change > min_baseline
    THEN [recommended_period |-> PyMin(n - most_recent_change, max_baseline),
          reasoning |-> <<"Process change detected.">>,
          confidence |-> Rat(8, 10),
          should_recalculate |-> TRUE]
    ELSE [recommended_period |-> min_baseline,
          reasoning |-> <<"Recent process change detected.">>,
          confidence |-> Rat(6, 10),
          should_recalculate |-> FALSE]

\* the branch taken when change points were detected
ChangeBasedPeriod(n, most_recent_change) ==
    LET data_since_change == n - most_recent_change IN
    IF data_since_change >= min_baseline
    THEN [recommended_period |-> PyMin(data_since_change, max_baseline),
          reasoning |-> <<"Process change detected at point "
                          \o ToString(most_recent_change) \o ". Using "
                          \o ToString(data_since_change)
                          \o " points since last change.">>,
          confidence |-> Rat(8, 10),
          should_recalculate |-> TRUE]
    ELSE [recommended_period |-> min_baseline,
          reasoning |-> <<"Recent process change detected, but only "
                          \o ToString(data_since_change)
                          \o " points available since change. Using minimum baseline.">>,
          confidence |-> Rat(6, 10),
          should_recalculate |-> FALSE]

\* the branch taken without change points, with <= for < on high stability
StabilityBasedPeriod_OrEqual(n, current_period, stability_score) ==
    IF RatLe(Rat(8, 10), stability_score)
    THEN [recommended_period |-> PyMin(max_baseline, n),
          reasoning |-> <<"High process stability (score: " \o Format2f(stability_score)
                          \o "). Using longer baseline period for better precision.">>,
          confidence |-> Rat(8, 10),
          should_recalculate |->
              RatLe(RatInt(current_period),
                    RatMul(RatInt(PyMin(max_baseline, n)), Rat(8, 10)))]
    ELSE IF RatLe(Rat(6, 10), stability_score)
    THEN [recommended_period |-> optimal_baseline,
          reasoning |-> <<"Moderate process stability (score: "
                          \o Format2f(stability_score)
                          \o "). Using optimal baseline period.">>,
          confidence |-> Rat(8, 10),
          should_recalculate |-> Abs(current_period - optimal_baseline) > 3]
    ELSE [recommended_period |-> min_baseline,
          reasoning |-> <<"Low process stability (score: " \o Format2f(stability_score)
                          \o "). Using shorter baseline period.">>,
          confidence |-> Rat(5, 10),
          should_recalculate |->
              RatLt(RatMul(RatInt(min_baseline), Rat(15, 10)), RatInt(current_period))]

\* the branch taken without change points
StabilityBasedPeriod(n, current_period, stability_score) ==
    IF RatLe(Rat(8, 10), stability_score)
    THEN [recommended_period |-> PyMin(max_baseline, n),
          reasoning |-> <<"High process stability (score: " \o Format2f(stability_score)
                          \o "). Using longer baseline period for better precision.">>,
          confidence |-> Rat(8, 10),
          should_recalculate |->
              RatLt(RatInt(current_period),
                    RatMul(RatInt(PyMin(max_baseline, n)), Rat(8, 10)))]
    ELSE IF RatLe(Rat(6, 10), stability_score)
    THEN [recommended_period |-> optimal_baseline,
          reasoning |-> <<"Moderate process stability (score: "
                          \o Format2f(stability_score)
                          \o "). Using optimal baseline period.">>,
          confidence |-> Rat(8, 10),
          should_recalculate |-> Abs(current_period - optimal_baseline) > 3]
    ELSE [recommended_period |-> min_baseline,
          reasoning |-> <<"Low process stability (score: " \o Format2f(stability_score)
                          \o "). Using shorter baseline period.">>,
          confidence |-> Rat(5, 10),
          should_recalculate |->
              RatLt(RatMul(RatInt(min_baseline), Rat(15, 10)), RatInt(current_period))]

\* the adjustment for seasonal patterns
SeasonalAdjustment(r, seasonal_pattern) ==
    IF seasonal_pattern = "weekly"
    THEN LET weeks_needed == IF r.recommended_period \div 7 > 1
                             THEN r.recommended_period \div 7 ELSE 1
         IN  IF weeks_needed * 7 <= max_baseline
             THEN [r EXCEPT !.recommended_period = weeks_needed * 7,
                            !.reasoning = Append(@,
                                "Weekly seasonality detected. Adjusted baseline to "
                                \o ToString(weeks_needed) \o " complete week(s).")]
             ELSE r
    ELSE IF seasonal_pattern = "monthly" /\ r.recommended_period < 14
    THEN [r EXCEPT !.recommended_period = 14,
                   !.reasoning = Append(@,
                       "Monthly seasonality detected. Using minimum 2-week baseline.")]
    ELSE r

\* the adjustment for the signal density, with >= 0.2 for > 0.2
DensityAdjustment_OrEqual(r, signal_density) ==
    IF RatLe(Rat(2, 10), signal_density)
    THEN [r EXCEPT !.recommended_period =
                       IF @ - 2 < min_baseline THEN min_baseline ELSE @ - 2,
                   !.confidence = RatMul(@, Rat(9, 10))]
    ELSE IF RatLt(signal_density, Rat(5, 100))
    THEN [r EXCEPT !.recommended_period = PyMin(max_baseline, @ + 2)]
    ELSE r

\* the adjustment for the signal density
DensityAdjustment(r, signal_density) ==
    IF RatLt(Rat(2, 10), signal_density)
    THEN [r EXCEPT !.recommended_period =
                       IF @ - 2 < min_baseline THEN min_baseline ELSE @ - 2,
                   !.reasoning = Append(@, "High signal density ("
                       \o Format2f(signal_density)
                       \o "). Reducing baseline period for faster detection."),
                   !.confidence = RatMul(@, Rat(9, 10))]
    ELSE IF RatLt(signal_density, Rat(5, 100))
    THEN [r EXCEPT !.recommended_period = PyMin(max_baseline, @ + 2),
                   !.reasoning = Append(@, "Low signal density ("
                       \o Format2f(signal_density)
                       \o "). Increasing baseline period for stability.")]
    ELSE r

WithinBounds_Unbounded(recommended_period) == recommended_period

\* max(self.min_baseline, min(self.max_baseline, recommended_period))
WithinBounds(recommended_period) ==
    IF PyMin(max_baseline, recommended_period) < min_baseline THEN min_baseline
    ELSE PyMin(max_baseline, recommended_period)

StabilityLabel(stability_score, change_points) ==
    IF RatLe(Rat(8, 10), stability_score) /\ change_points = <<>> THEN "stable"
    ELSE IF RatLe(Rat(6, 10), stability_score) THEN "improving"
    ELSE IF change_points # <<>> THEN "degrading"
    ELSE "unstable"

\* the BaselineRecommendation, its confidence raised by the closeness of the
\* period before the bounds
RecommendationOf_BeforeBounds(r, current_period, stability, seasonal_pattern, now) ==
    [recommendedPeriod |-> WithinBounds(r.recommended_period),
     currentPeriod     |-> current_period,
     confidence        |->
         Min1(IF Abs(r.recommended_period - current_period) <= 2
              THEN RatMul(r.confidence, Rat(11, 10)) ELSE r.confidence),
     reasoning         |-> r.reasoning,
     stability         |-> stability,
     seasonalPattern   |-> seasonal_pattern,
     shouldRecalculate |-> r.should_recalculate,
     lastRecalculationDate |-> now]

\* the bounds, the final confidence and the BaselineRecommendation
RecommendationOf(r, current_period, stability, seasonal_pattern, now) ==
    [recommendedPeriod |-> WithinBounds(r.recommended_period),
     currentPeriod     |-> current_period,
     confidence        |->
         Min1(IF Abs(WithinBounds(r.recommended_period) - current_period) <= 2
              THEN RatMul(r.confidence, Rat(11, 10)) ELSE r.confidence),
     reasoning         |-> r.reasoning,
     stability         |-> stability,
     seasonalPattern   |-> seasonal_pattern,
     shouldRecalculate |-> r.should_recalculate,
     lastRecalculationDate |-> now]

\* now is the value datetime.now() returns during the call
_generate_baseline_recommendation(data, current_period, stability_score, change_points, seasonal_pattern, signal_density, metric_type, now) ==
    RecommendationOf(
        DensityAdjustment(
            SeasonalAdjustment(
                IF Len(change_points) > 0
                THEN ChangeBasedPeriod(Len(data), MaxOf(change_points))
                ELSE StabilityBasedPeriod(Len(data), current_period, stability_score),
                seasonal_pattern),
            signal_density),
        current_period, StabilityLabel(stability_score, change_points),
        seasonal_pattern, now)

\* the six steps of analyze_dynamic_baseline, from their results
DynamicBaselineAnalysis(data, current_baseline_period, metric_type, now, stability_score, change_points, seasonality_analysis, signal_density, variation_trend) ==
    [recommendation |->
         _generate_baseline_recommendation(
             data, current_baseline_period, stability_score, change_points,
             seasonality_analysis.dominant_pattern, signal_density, metric_type, now),
     dataStabilityScore  |-> stability_score,
     processChangePoints |-> change_points,
     seasonalityAnalysis |-> seasonality_analysis,
     signalDensity       |-> signal_density,
     variationTrend      |-> variation_trend]

analyze_dynamic_baseline(data, current_baseline_period, metric_type, now) ==
    IF Len(data) < min_baseline
    THEN Raise("ValueError", "Minimum " \o ToString(min_baseline)
                                 \o " data points required for baseline analysis")
    ELSE Return(DynamicBaselineAnalysis(
                    data, current_baseline_period, metric_type, now,
                    _calculate_data_stability(ValuesOf(data)),
                    _detect_process_changes(ValuesOf(data)),
                    _analyze_seasonality(data),
                    _calculate_signal_density(ValuesOf(data)),
                    _analyze_variation_trend(ValuesOf(data))))

_calculate_baseline_stability(baseline_data) ==
    IF Len(baseline_data) < 3 THEN RatInt(0)
    ELSE IF Sum(baseline_data) = 0 THEN RatInt(0)
    ELSE Min1(Max0(RatSub(RatInt(1),
                          Quotient(stdev(baseline_data), Mean(baseline_data)))))

\* the metrics of one baseline period, from its limits and its signals
PeriodMetrics(values, baseline_data, limits, signals) ==
    [signal_count       |-> Len(signals),
     signal_density     |-> Rat(SignalPoints(signals), Len(values)),
     limit_precision    |->
         IF RatLt(limits.lowerLimit, limits.upperLimit)
         THEN Quotient(RatInt(1), RatSub(limits.upperLimit, limits.lowerLimit))
         ELSE RatInt(0),
     baseline_stability |-> _calculate_baseline_stability(baseline_data),
     upper_limit        |-> limits.upperLimit,
     lower_limit        |-> limits.lowerLimit,
     average            |-> limits.average]

\* the try block for one period, after the signals
EvaluateSignals(values, baseline_data, limits, detected) ==
    IF Raised(detected) THEN detected
    ELSE Return(PeriodMetrics(values, baseline_data, limits, detected.value))

\* the try block for one period, after the limits
EvaluateLimits(values, baseline_data, calculated) ==
    IF Raised(calculated) THEN calculated
    ELSE EvaluateSignals(values, baseline_data, calculated.value,
                         detect_all_signals(values, calculated.value))

\* results[period] = metrics, on a dict kept as the list of its items
DictSet(results, key, value) ==
    IF \E k \in 1..Len(results) : results[k].period = key
    THEN [k \in 1..Len(results) |->
             IF results[k].period = key THEN [period |-> key, metrics |-> value]
             ELSE results[k]]
    ELSE Append(results, [period |-> key, metrics |-> value])

\* one round of the loop: continue on a period out of range and on an
\* exception
EvaluatePeriod(results, period, evaluated) ==
    IF Raised(evaluated) THEN results ELSE DictSet(results, period, evaluated.value)

RECURSIVE EvaluateScan(_, _, _)
EvaluateScan(results, values, periods_to_test) ==
    IF periods_to_test = <<>> THEN results
    ELSE LET period == Head(periods_to_test)
         IN  EvaluateScan(
                 IF period < min_baseline \/ period > Len(values) THEN results
                 ELSE EvaluatePeriod(results, period,
                          EvaluateLimits(values, Slice(values, 0, period),
                              calculate_natural_process_limits(Slice(values, 0, period)))),
                 values, Tail(periods_to_test))

evaluate_alternative_baselines(data, periods_to_test) ==
    EvaluateScan(<<>>, ValuesOf(data), periods_to_test)

(***************************************************************************)
(* pbc_router.py                                                           *)
(***************************************************************************)
\* raise HTTPException(status_code=..., detail=...)
HTTPException(status_code, detail) ==
    [tag |-> "raise", exc |-> "HTTPException",
     status_code |-> status_code, detail |-> detail]

\* except ValueError also catches pydantic's ValidationError
IsValueError(exc) == exc \in {"ValueError", "ValidationError"}

\* datetime.isoformat(): an injective rendering of the timestamp
Isoformat(timestamp) == [isoformat |-> timestamp]

\* the response built at the end of the try block
ThroughputResponse(throughput_analysis, values, timestamps, baseline_period, limits, signals) ==
    [throughputAnalysis |-> throughput_analysis,
     xChart |-> [timestamps |-> timestamps,
                 values     |-> values,
                 average    |-> limits.average,
                 upperLimit |-> limits.upperLimit,
                 lowerLimit |-> limits.lowerLimit,
                 sigmaLines |-> calculate_sigma_lines(limits)],
     mrChart |-> [timestamps |-> Tail(timestamps),
                  values     |-> calculate_moving_ranges(values),
                  average    |-> limits.averageMovingRange,
                  upperLimit |-> limits.upperRangeLimit],
     signals         |-> signals,
     limits          |-> limits,
     baselinePeriod  |-> baseline_period,
     recommendations |->
         generate_throughput_recommendations(throughput_analysis, signals)]

\* signals = signal_detector.detect_all_signals(values, limits), not guarded
\* by a try of its own, and the rest of the try block
ThroughputSignals(throughput_analysis, values, timestamps, baseline_period, limits, detected) ==
    IF Raised(detected) THEN detected
    ELSE Return(ThroughputResponse(throughput_analysis, values, timestamps,
                                   baseline_period, limits, detected.value))

\* limits = calculator.calculate_natural_process_limits(baseline_data)
\* and the rest of the try block
ThroughputLimits(throughput_analysis, values, timestamps, baseline_period, calculated) ==
    IF Raised(calculated) THEN calculated
    ELSE ThroughputSignals(throughput_analysis, values, timestamps, baseline_period,
                           calculated.value,
                           detect_all_signals(values, calculated.value))

\* the chart of the period counts: values, timestamps and baseline
ThroughputChart(req, throughput_analysis, throughput_pbc_data) ==
    IF Len(throughput_pbc_data) < 3
    THEN HTTPException(400, "Insufficient throughput periods for meaningful PBC analysis")
    ELSE LET values          == ValuesOf(throughput_pbc_data)
             timestamps      == [i \in 1..Len(throughput_pbc_data) |->
                                    Isoformat(throughput_pbc_data[i].timestamp)]
             baseline_period == PyMin(req.baselinePeriod, Len(values))
             baseline_data   == SubSeq(values, 1, baseline_period)
         IN  ThroughputLimits(throughput_analysis, values, timestamps, baseline_period,
                              calculate_natural_process_limits(baseline_data))

\* throughput_analysis = calculate_throughput_analysis(...), whose
\* ValueError leaves the try block, and the rest of the try block
ThroughputAnalysis(req, analysis) ==
    IF Raised(analysis) THEN analysis
    ELSE ThroughputChart(req, analysis.value, create_throughput_pbc_data(analysis.value))

\* the try block of calculate_throughput
calculate_throughput_try(req) ==
    IF Len(req.data) < 3
    THEN HTTPException(400, "Minimum 3 completed items required for throughput analysis")
    ELSE ThroughputAnalysis(req, calculate_throughput_analysis(req.data, req.period))

\* the except clauses of calculate_throughput
calculate_throughput_except(tried) ==
    IF Returned(tried) THEN tried
    ELSE IF tried.exc = "HTTPException" THEN tried
    ELSE IF IsValueError(tried.exc) THEN HTTPException(400, tried.msg)
    ELSE HTTPException(500, "Internal calculation error: " \o tried.msg)

calculate_throughput(req) == calculate_throughput_except(calculate_throughput_try(req))

\* round(x, 3) for x >= 0: the nearest multiple of 1/1000, ties to even
Round3(x) ==
    LET scaled == x.n * 1000
        low    == scaled \div x.d
        twice  == 2 * (scaled % x.d)
    IN  IF twice < x.d THEN Rat(low, 1000)
        ELSE IF twice > x.d THEN Rat(low + 1, 1000)
        ELSE IF low % 2 = 0 THEN Rat(low, 1000) ELSE Rat(low + 1, 1000)

get_flow_metrics_guidance(metric_type, signals) ==
    IF metric_type = "throughput"
    THEN [interpretation |->
              "Throughput measures the number of items completed per time period",
          signals_meaning |->
              "Signals indicate changes in your team's delivery capacity",
          action_items |->
              <<"Investigate capacity changes during signal periods",
                "Look for team composition or process changes",
                "Consider external factors affecting delivery rate">>]
    ELSE [interpretation |->
              "Cycle Time measures the elapsed time from when work starts until it's completed",
          signals_meaning |->
              "Signals indicate changes in your delivery process that require investigation",
          action_items |->
              <<"Investigate assignable causes for points outside Natural Process Limits",
                "Look for process changes during signal periods",
                "Consider workflow bottlenecks or capacity changes">>]

generate_vacanti_insights(values, limits, signals) ==
    LET total_points         == Len(values)
        signal_points        == SignalPoints(signals)
        predictability_ratio == RatSub(RatInt(1), Rat(signal_points, total_points))
    IN  [predictability_ratio |-> Round3(predictability_ratio),
         assessment |->
             IF RatLe(Rat(85, 100), predictability_ratio) THEN "Highly Predictable"
             ELSE IF RatLe(Rat(70, 100), predictability_ratio) THEN "Moderately Predictable"
             ELSE "Unpredictable",
         recommendation |->
             IF RatLe(Rat(85, 100), predictability_ratio)
             THEN "Your process exhibits routine variation. Focus on continuous improvement."
             ELSE IF RatLe(Rat(70, 100), predictability_ratio)
             THEN "Some exceptional variation detected. Investigate assignable causes."
             ELSE "Significant exceptional variation. Process improvement needed before forecasting.",
         baseline_period_guidance |->
             "Using " \o ToString(Len(values))
                 \o " data points meets Vacanti's minimum 6-point requirement"]

\* the guidance sent for a baseline without variation
NoVariationDetail ==
    "No variation detected in data. Process Behaviour Charts require data with variation "
    \o "to calculate meaningful limits. Please provide data points with different values."

\* "All moving ranges are zero" in error_message
MentionsZeroMovingRanges(error_message) ==
    error_message = "All moving ranges are zero - no variation detected in data"

\* the response built at the end of the try block
PbcResponse(data, values, timestamps, baseline_period, limits, signals) ==
    LET task_keys  == [i \in 1..Len(data) |-> "Task-" \o ToString(i)]
        task_names == [i \in 1..Len(data) |-> "Unnamed Task"]
    IN  [xChart |-> [timestamps |-> timestamps,
                     values     |-> values,
                     average    |-> limits.average,
                     upperLimit |-> limits.upperLimit,
                     lowerLimit |-> limits.lowerLimit,
                     taskKeys   |-> task_keys,
                     taskNames  |-> task_names,
                     sigmaLines |-> calculate_sigma_lines(limits)],
         mrChart |-> [timestamps |-> Tail(timestamps),
                      values     |-> calculate_moving_ranges(values),
                      average    |-> limits.averageMovingRange,
                      upperLimit |-> limits.upperRangeLimit],
         signals        |-> signals,
         limits         |-> limits,
         baselinePeriod |-> baseline_period,
         originalData   |-> [i \in 1..Len(values) |->
                                [taskKey   |-> task_keys[i],
                                 taskName  |-> task_names[i],
                                 value     |-> values[i],
                                 timestamp |-> timestamps[i]]],
         flowMetricsContext |->
             [metricType       |-> "cycle_time",
              analysisGuidance |-> get_flow_metrics_guidance("cycle_time", signals),
              vacanti_insights |-> generate_vacanti_insights(values, limits, signals)]]

\* try: signals = signal_detector.detect_all_signals(values, limits)
\* except Exception: signals = []
PbcSignals(detected) == IF Raised(detected) THEN <<>> ELSE detected.value

\* try: limits = calculator.calculate_natural_process_limits(baseline_data)
\* except Exception as calc_error: raise HTTPException(500, ...)
\* and the rest of the try block
PbcLimits(data, values, timestamps, baseline_period, calculated) ==
    IF Raised(calculated)
    THEN HTTPException(500, "Error calculating process limits: " \o calculated.msg)
    ELSE Return(PbcResponse(data, values, timestamps, baseline_period, calculated.value,
                            PbcSignals(detect_all_signals(values, calculated.value))))

\* the try block of calculate_pbc
calculate_pbc_try(req) ==
    IF Len(req.data) < 3
    THEN HTTPException(400, "Minimum 3 data points required for any PBC calculation")
    ELSE LET values          == ValuesOf(req.data)
             timestamps      == [i \in 1..Len(req.data) |->
                                    Isoformat(req.data[i].timestamp)]
             baseline_period == PyMin(req.baselinePeriod, Len(req.data))
             baseline_data   == SubSeq(values, 1, baseline_period)
         IN  PbcLimits(req.data, values, timestamps, baseline_period,
                       calculate_natural_process_limits(baseline_data))

\* the except clauses of calculate_pbc
calculate_pbc_except(tried) ==
    IF Returned(tried) THEN tried
    ELSE IF tried.exc = "HTTPException" THEN tried
    ELSE IF IsValueError(tried.exc)
    THEN (IF MentionsZeroMovingRanges(tried.msg)
          THEN HTTPException(400, NoVariationDetail)
          ELSE HTTPException(400, tried.msg))
    ELSE HTTPException(500, "Internal calculation error: " \o tried.msg)

\* the redirect of throughput data, else the try block and its except clauses
calculate_pbc(req) ==
    IF req.metricType = "throughput"
    THEN calculate_throughput([op             |-> "calculate_throughput",
                               data           |-> req.data,
                               period         |-> "weekly",
                               baselinePeriod |-> req.baselinePeriod,
                               detectionRules |-> req.detectionRules])
    ELSE calculate_pbc_except(calculate_pbc_try(req))

(***************************************************************************)
(* Requests.                                                               *)
(***************************************************************************)
\* the series the health check of the router feeds to the calculator
HealthCheckData == <<1, 2, 3, 4, 5, 6>>

\* six identical points: the documented no-variation input
ConstantData == <<1, 1, 1, 1, 1, 1>>

LimitsRequest(d) ==
    [op |-> "calculate_natural_process_limits", data |-> d, scale |-> "unit"]

\* the same call on doubles next to zero: d[i] stands for d[i] * 2^-1074
SubnormalRequest(d) ==
    [op |-> "calculate_natural_process_limits", data |-> d, scale |-> "subnormal"]

\* baselines whose limits the detector is run against: the first puts the
\* values 0 .. 3 in every zone of the chart, the second has its lower limit
\* and lower sigma lines floored at 0 and its upper limit just below 3
DetectorBaselines == {<<1, 1, 2>>, <<0, 1, 0>>}

DetectorLimits ==
    {calculate_natural_process_limits(b).value : b \in DetectorBaselines}

\* values below, on and above the average of <<1, 2, 3>>
RunLimits == {calculate_natural_process_limits(<<1, 2, 3>>).value}

\* eight points above the average, then one below; an alternating series
LongSeries == {<<3, 3, 3, 3, 3, 3, 3, 3, 1>>, <<1, 3, 1, 3, 1, 3, 1, 3, 1>>}

\* series handed to the baseline analysis: a segment that alternates
\* between 2 * l1 and 2 * l1 + a, then one between 2 * l2 and 2 * l2 + a,
\* with l1, l2 in 0 .. MaxLevel, a in 0 .. MaxAmplitude and at most
\* MaxSegment values in each segment
MaxLevel == 3
MaxAmplitude == 1
MaxSegment == 9
\* latest reading of the clock
MaxClock == 2

WindowRules == {"detect_rule1_signals", "detect_rule2_signals", "detect_rule3_signals"}

DetectorOps == WindowRules \cup {"detect_rule4_signals", "detect_all_signals"}

DetectorRequest(o, d, l) == [op |-> o, data |-> d, limits |-> l]

\* DataPoint(timestamp, value, label=None)
DataPoint(timestamp, value) ==
    [timestamp |-> timestamp, value |-> value, label |-> "None"]

\* cycle times: one observation a day
CycleTimes(values) == [i \in 1..Len(values) |-> DataPoint(i - 1, values[i])]

\* completions: one item per timestamp
Completions(days) == [i \in 1..Len(days) |-> DataPoint(days[i], 1)]

\* days on which items complete: days in a row for daily periods, Mondays
\* and a Sunday for weekly periods, first and last days of months in a row
\* for monthly periods
EventDays(period) ==
    CASE period = "daily"   -> {0, 1, 2, 3}
      [] period = "weekly"  -> {0, 6, 7, 14, 21}
      [] period = "monthly" -> {0, 30, 31, 60, 91}

\* the default of detectionRules, and all four rules
DetectionRuleChoices ==
    {<<"rule1", "rule4">>, <<"rule1", "rule2", "rule3", "rule4">>}

PBCRequest(data, baselinePeriod, detectionRules, metricType) ==
    [op |-> "calculate_pbc", data |-> data, baselinePeriod |-> baselinePeriod,
     detectionRules |-> detectionRules, metricType |-> metricType]

ThroughputRequest(data, period, baselinePeriod, detectionRules) ==
    [op |-> "calculate_throughput", data |-> data, period |-> period,
     baselinePeriod |-> baselinePeriod, detectionRules |-> detectionRules]

\* days on which items complete in the requests to the throughput
\* analysis: days in a row and a gap; a Monday, a Sunday and later weeks;
\* 2024-11-01, 2024-12-01, 2024-12-31, 2025-01-01 and 2025-02-01
CompletionDays(period) ==
    CASE period = "daily"   -> {0, 1, 2, 4}
      [] period = "weekly"  -> {0, 6, 7, 14, 20}
      [] period = "monthly" -> {305, 335, 365, 366, 397}

AnalysisRequest(completion_data, period) ==
    [op |-> "calculate_throughput_analysis",
     completion_data |-> completion_data, period |-> period]

\* the sample data of test_throughput: timedelta(days=first + i) after
\* base_date for i in range(count), labelled f"Item-W{week}-{i+1}"
SampleWeek(week, first, count) ==
    [k \in 1..count |->
        [timestamp |-> first + PyIndex(k), value |-> 1,
         label |-> "Item-W" \o ToString(week) \o "-" \o ToString(PyIndex(k) + 1)]]

TestThroughputSample == SampleWeek(1, 0, 5) \o SampleWeek(2, 7, 8) \o SampleWeek(3, 14, 3)

NoResponse == [tag |-> "none"]

\* the first call of a caller, made when the clock reads 0
FirstCall == clock = 0 /\ earlier = NoResponse

\* the debug endpoint test_throughput: the analysis of its sample by weeks
test_throughput ==
    LET analysed == calculate_throughput_analysis(TestThroughputSample, "weekly") IN
    IF Raised(analysed)
    THEN Return([calculation_status |-> "failed", error |-> analysed.msg])
    ELSE Return([sample_data_count  |-> Len(TestThroughputSample),
                 throughput_analysis |->
                     [totalPeriods        |-> analysed.value.totalPeriods,
                      averageThroughput   |-> analysed.value.averageThroughput,
                      medianThroughput    |-> analysed.value.medianThroughput,
                      predictabilityScore |-> analysed.value.predictabilityScore],
                 calculation_status |-> "success"])

(***************************************************************************)
(* The call.                                                               *)
(***************************************************************************)
Called(name) == pc = "called" /\ request.op = name

Respond(r) ==
    /\ response' = r
    /\ pc' = "returned"
    /\ UNCHANGED <<request, clock, earlier>>

CalculateNaturalProcessLimits ==
    /\ Called("calculate_natural_process_limits")
    /\ Respond(NaturalProcessLimits(request.data, request.scale))

InitLimits ==
    /\ pc = "called"
    /\ \/ \E k \in 0..MaxLimitsLen : \E d \in [1..k -> (-ValueRange)..ValueRange] :
              request = LimitsRequest(d)
       \/ \E d \in {HealthCheckData, ConstantData} : request = LimitsRequest(d)
    /\ response = NoResponse
    /\ FirstCall

NextLimits == CalculateNaturalProcessLimits

SpecLimits == InitLimits /\ [][NextLimits]_vars

\* series of doubles at and next to 0.0, of either scale
InitUnderflow ==
    /\ pc = "called"
    /\ \E k \in 0..MaxLimitsLen : \E d \in [1..k -> 0..ValueRange] :
           request \in {LimitsRequest(d), SubnormalRequest(d)}
    /\ response = NoResponse
    /\ FirstCall

SpecUnderflow == InitUnderflow /\ [][NextLimits]_vars

DetectRule1Signals ==
    /\ Called("detect_rule1_signals")
    /\ Respond(detect_rule1_signals(request.data, request.limits))

DetectRule2Signals ==
    /\ Called("detect_rule2_signals")
    /\ Respond(detect_rule2_signals(request.data, request.limits.average,
                                    _calculate_sigma_lines(request.limits)))

DetectRule3Signals ==
    /\ Called("detect_rule3_signals")
    /\ Respond(detect_rule3_signals(request.data, request.limits.average,
                                    _calculate_sigma_lines(request.limits)))

DetectRule4Signals ==
    /\ Called("detect_rule4_signals")
    /\ Respond(detect_rule4_signals(request.data, request.limits.average))

DetectAllSignals ==
    /\ Called("detect_all_signals")
    /\ Respond(detect_all_signals(request.data, request.limits))

InitDetector ==
    /\ pc = "called"
    /\ \/ \E o \in WindowRules \cup {"detect_all_signals"}, l \in DetectorLimits :
              \E k \in 0..MaxDetectLen : \E d \in [1..k -> 0..MaxDetectValue] :
                  request = DetectorRequest(o, d, l)
       \/ \E l \in RunLimits : \E k \in 0..MaxRunLen : \E d \in [1..k -> 1..3] :
              request = DetectorRequest("detect_rule4_signals", d, l)
       \/ \E d \in LongSeries, l \in DetectorLimits :
              request = DetectorRequest("detect_all_signals", d, l)
    /\ response = NoResponse
    /\ FirstCall

NextDetector ==
    \/ DetectRule1Signals
    \/ DetectRule2Signals
    \/ DetectRule3Signals
    \/ DetectRule4Signals
    \/ DetectAllSignals

SpecDetector == InitDetector /\ [][NextDetector]_vars

CalculatePbc ==
    /\ Called("calculate_pbc")
    /\ Respond(calculate_pbc(request))

CalculateThroughput ==
    /\ Called("calculate_throughput")
    /\ Respond(calculate_throughput(request))

InitRouter ==
    /\ pc = "called"
    /\ \E b \in 3..MaxBaselinePeriod, rules \in DetectionRuleChoices :
           \/ \E k \in 0..MaxPbcLen : \E v \in [1..k -> 0..MaxPbcValue] :
                  request = PBCRequest(CycleTimes(v), b, rules, "cycle_time")
           \/ \E k \in 0..MaxEvents : \E days \in [1..k -> EventDays("weekly")] :
                  request = PBCRequest(Completions(days), b, rules, "throughput")
           \/ \E p \in Periods :
                  \E k \in 0..MaxEvents : \E days \in [1..k -> EventDays(p)] :
                      request = ThroughputRequest(Completions(days), p, b, rules)
    /\ response = NoResponse
    /\ FirstCall

NextRouter ==
    \/ CalculatePbc
    \/ CalculateThroughput

SpecRouter == InitRouter /\ [][NextRouter]_vars

CalculateThroughputAnalysis ==
    /\ Called("calculate_throughput_analysis")
    /\ Respond(calculate_throughput_analysis(request.completion_data, request.period))

TestThroughput ==
    /\ Called("test_throughput")
    /\ Respond(test_throughput)

InitThroughput ==
    /\ pc = "called"
    /\ \/ \E p \in Periods :
              \E k \in 0..MaxEvents : \E days \in [1..k -> CompletionDays(p)] :
                  request = AnalysisRequest(Completions(days), p)
       \/ request = AnalysisRequest(TestThroughputSample, "weekly")
       \/ request = [op |-> "test_throughput"]
    /\ response = NoResponse
    /\ FirstCall

NextThroughput ==
    \/ CalculateThroughputAnalysis
    \/ TestThroughput

SpecThroughput == InitThroughput /\ [][NextThroughput]_vars

RecommendBaselinePeriod ==
    /\ Called("recommend_baseline_period")
    /\ Respond(Return(recommend_baseline_period(request.data_length)))

ValidateBaselinePeriod ==
    /\ Called("validate_baseline_period")
    /\ Respond(validate_baseline_period(request.data_length, request.baseline_period))

InitBaselinePeriod ==
    /\ pc = "called"
    /\ \/ \E n \in (-MaxDataLength)..MaxDataLength :
              request = [op |-> "recommend_baseline_period", data_length |-> n]
       \/ \E n \in 0..MaxValidatedLength, b \in 0..(MaxValidatedLength + 1) :
              request = [op |-> "validate_baseline_period",
                         data_length |-> n, baseline_period |-> b]
    /\ response = NoResponse
    /\ FirstCall

NextBaselinePeriod ==
    \/ RecommendBaselinePeriod
    \/ ValidateBaselinePeriod

SpecBaselinePeriod == InitBaselinePeriod /\ [][NextBaselinePeriod]_vars

(***************************************************************************)
(* Calls of the DynamicBaselineCalculator.                                 *)
(***************************************************************************)
Alternating(level, amplitude, count) ==
    [i \in 1..count |-> 2 * level + amplitude * (PyIndex(i) % 2)]

StepSeries ==
    {Alternating(l1, a, k1) \o Alternating(l2, a, k2) :
        l1 \in 0..MaxLevel, l2 \in 0..MaxLevel, a \in 0..MaxAmplitude,
        k1 \in 0..MaxSegment, k2 \in 0..MaxSegment}

\* series of 28 to 30 values, where len(values) // 4 exceeds 6
LongStepSeries ==
    {Alternating(l1, 1, 14) \o Alternating(l2, 1, k2) :
        l1 \in 0..MaxLevel, l2 \in 0..MaxLevel, k2 \in 14..16}

\* current baseline periods of a request: below, at and above the bounds
CurrentPeriods == {1, min_baseline, optimal_baseline, max_baseline, max_baseline + 10}

\* current periods of a recommendation: these, and the periods around the
\* thresholds 9, 12 +- 3 and 0.8 * 20 of shouldRecalculate
RecommendationPeriods == CurrentPeriods \cup {9, 10, 15, 16}

\* stability scores around the thresholds 0.6 and 0.8
StabilityScores == {Rat(0, 1), Rat(59, 100), Rat(6, 10), Rat(8, 10), Rat(1, 1)}

\* signal densities around the thresholds 0.05 and 0.2
SignalDensities == {Rat(0, 1), Rat(5, 100), Rat(2, 10), Rat(25, 100)}

SeasonalPatterns == {"none", "weekly", "monthly", "quarterly"}

AnalyzeDynamicBaseline ==
    /\ Called("analyze_dynamic_baseline")
    /\ Respond(analyze_dynamic_baseline(request.data, request.current_baseline_period,
                                        request.metric_type, clock))

EvaluateAlternativeBaselines ==
    /\ Called("evaluate_alternative_baselines")
    /\ Respond(Return(evaluate_alternative_baselines(request.data,
                                                     request.periods_to_test)))

DetectProcessChanges ==
    /\ Called("_detect_process_changes")
    /\ Respond(Return(_detect_process_changes(request.values)))

CalculateSignalDensity ==
    /\ Called("_calculate_signal_density")
    /\ Respond(Return(_calculate_signal_density(request.values)))

AnalyzeVariationTrend ==
    /\ Called("_analyze_variation_trend")
    /\ Respond(Return(_analyze_variation_trend(request.values)))

GenerateBaselineRecommendation ==
    /\ Called("_generate_baseline_recommendation")
    /\ Respond(Return(_generate_baseline_recommendation(
                          request.data, request.current_period,
                          request.stability_score, request.change_points,
                          request.seasonal_pattern, request.signal_density,
                          request.metric_type, clock)))

InitBaseline ==
    /\ pc = "called"
    /\ \/ \E values \in StepSeries, p \in CurrentPeriods :
              request = [op |-> "analyze_dynamic_baseline",
                         data |-> CycleTimes(values),
                         current_baseline_period |-> p,
                         metric_type |-> "cycle_time"]
       \/ \E values \in StepSeries, lo \in {min_baseline - 2, min_baseline} :
              request = [op |-> "evaluate_alternative_baselines",
                         data |-> CycleTimes(values),
                         periods_to_test |->
                             PyRange(lo, PyMin(max_baseline + 1, Len(values) + 3))]
       \/ \E values \in StepSeries \cup LongStepSeries :
              request = [op |-> "_detect_process_changes", values |-> values]
       \/ \E values \in StepSeries :
              request = [op |-> "_calculate_signal_density", values |-> values]
       \/ \E values \in StepSeries :
              request = [op |-> "_analyze_variation_trend", values |-> values]
       \/ \E n \in (0..(2 * MaxSegment)) \cup {max_baseline + 1, max_baseline + 10},
              p \in RecommendationPeriods,
              score \in StabilityScores, pattern \in SeasonalPatterns,
              density \in SignalDensities :
              \E changes \in {<<>>} \cup {<<k>> : k \in 0..(n - 1)} :
                  request = [op |-> "_generate_baseline_recommendation",
                             data |-> CycleTimes([i \in 1..n |-> 0]),
                             current_period |-> p, stability_score |-> score,
                             change_points |-> changes, seasonal_pattern |-> pattern,
                             signal_density |-> density, metric_type |-> "cycle_time"]
    /\ response = NoResponse
    /\ FirstCall

NextBaseline ==
    \/ AnalyzeDynamicBaseline
    \/ EvaluateAlternativeBaselines
    \/ DetectProcessChanges
    \/ CalculateSignalDensity
    \/ AnalyzeVariationTrend
    \/ GenerateBaselineRecommendation

SpecBaseline == InitBaseline /\ [][NextBaseline]_vars

(***************************************************************************)
(* Repeated calls: the caller keeps the response and calls again with the  *)
(* same request, while the clock goes on.                                  *)
(***************************************************************************)
Tick ==
    /\ clock < MaxClock
    /\ clock' = clock + 1
    /\ UNCHANGED <<pc, request, response, earlier>>

CallAgain ==
    /\ pc = "returned"
    /\ pc' = "called"
    /\ earlier' = response
    /\ response' = NoResponse
    /\ UNCHANGED <<request, clock>>

InitRepeat ==
    \/ InitLimits
    \/ InitDetector
    \/ InitThroughput
    \/ /\ pc = "called"
       /\ \E l \in 0..MaxLevel, a \in 0..MaxAmplitude, k \in 0..MaxSegment :
              \/ request = [op |-> "analyze_dynamic_baseline",
                            data |-> CycleTimes(Alternating(l, a, k)),
                            current_baseline_period |-> min_baseline,
                            metric_type |-> "cycle_time"]
              \/ request = [op |-> "evaluate_alternative_baselines",
                            data |-> CycleTimes(Alternating(l, a, k)),
                            periods_to_test |-> PyRange(min_baseline, max_baseline + 1)]
       /\ response = NoResponse
       /\ FirstCall

NextRepeat ==
    \/ CalculateNaturalProcessLimits
    \/ DetectRule1Signals
    \/ DetectRule2Signals
    \/ DetectRule3Signals
    \/ DetectRule4Signals
    \/ DetectAllSignals
    \/ CalculateThroughputAnalysis
    \/ TestThroughput
    \/ AnalyzeDynamicBaseline
    \/ EvaluateAlternativeBaselines
    \/ Tick
    \/ CallAgain

SpecRepeat == InitRepeat /\ [][NextRepeat]_vars

(***************************************************************************)
(* Properties of calculate_natural_process_limits.                         *)
(***************************************************************************)
LimitsDone ==
    pc = "returned" /\ request.op = "calculate_natural_process_limits"

HasDifferingPair(data) ==
    \E i \in 1..(Len(data) - 1) : data[i] # data[i + 1]

AllIdentical(data) ==
    \A i \in 1..Len(data), j \in 1..Len(data) : data[i] = data[j]

\* sum of the distances between neighbours, written without Abs
RECURSIVE NeighbourDistance(_, _)
NeighbourDistance(data, k) ==
    IF k < 1 THEN 0
    ELSE NeighbourDistance(data, k - 1)
         + (IF data[k] < data[k + 1] THEN data[k + 1] - data[k]
                                     ELSE data[k] - data[k + 1])

\* the rational x equals num / den (den > 0), by cross-multiplication
RatIs(x, num, den) == x.d > 0 /\ x.n * den = num * x.d

C2_LimitFormulas ==
    (LimitsDone /\ Returned(response)) =>
        LET n == Len(request.data)
            S == Sum(request.data)
            M == NeighbourDistance(request.data, n - 1)
            L == response.value
            \* (average - 2.66 * averageMovingRange) * 100 * n * (n - 1)
            low == 100 * S * (n - 1) - 266 * M * n
        IN  /\ DOMAIN L = ProcessLimitsFields
            /\ RatIs(L.average, S, n)
            /\ RatIs(L.averageMovingRange, M, n - 1)
            /\ RatIs(L.upperLimit, 100 * S * (n - 1) + 266 * M * n,
                     100 * n * (n - 1))
            /\ RatIs(L.lowerLimit, IF low > 0 THEN low ELSE 0,
                     100 * n * (n - 1))
            /\ RatIs(L.upperRangeLimit, 327 * M, 100 * (n - 1))
            /\ request.data = HealthCheckData =>
                   /\ RatIs(L.average, 35, 10)
                   /\ RatIs(L.averageMovingRange, 1, 1)
                   /\ RatIs(L.upperLimit, 616, 100)
                   /\ RatIs(L.lowerLimit, 84, 100)
                   /\ RatIs(L.upperRangeLimit, 327, 100)

\* the limits of [1,2,3,4,5,6] were returned
C2_Witness ==
    LimitsDone /\ request.data = HealthCheckData /\ Returned(response)

C26_AsStated ==
    (LimitsDone /\ Len(request.data) >= 3 /\ HasDifferingPair(request.data))
        => (Returned(response) /\ response.value.averageMovingRange.n > 0)

\* the quotient sum(moving_ranges) / len(moving_ranges) underflows: at most
\* half of 2^-1074, which a double rounds to 0.0
Underflows(data, scale) ==
    /\ scale = "subnormal"
    /\ 2 * NeighbourDistance(data, Len(data) - 1) <= Len(data) - 1

\* C26, amended: an input that passes the n >= 3 check and the
\* all-moving-ranges-zero check gets limits with averageMovingRange > 0
\* unless the average of its moving ranges underflows to 0.0; then, and
\* only then, the "average moving range is zero" failure is raised.
C26_ZeroMovingRange ==
    (LimitsDone /\ Len(request.data) >= 3 /\ HasDifferingPair(request.data)) =>
        IF Underflows(request.data, request.scale)
        THEN /\ Raised(response)
             /\ response.msg = "Average moving range is zero - cannot calculate limits"
        ELSE /\ Returned(response)
             /\ response.value.averageMovingRange.n > 0

\* subnormal moving ranges whose average is rounded, but not to zero:
\* (0 + 2 + 0) / 3 counts of 2^-1074 is the double 1 * 2^-1074
C26_Witness ==
    /\ LimitsDone /\ request.scale = "subnormal"
    /\ request.data = <<0, 0, 2, 2>>
    /\ Returned(response)
    /\ response.value.averageMovingRange = RatInt(1)

(***************************************************************************)
(* Properties of SignalDetector.  The signals the rules are said to emit   *)
(* are written out here from their description, index by index, and the    *)
(* scans are compared with them.                                           *)
(***************************************************************************)
DetectorDone(name) == pc = "returned" /\ request.op = name

\* value > line and value < line, by cross-multiplication
Exceeds(value, line) == value * line.d > line.n

Undercuts(value, line) == value * line.d < line.n

RECURSIVE SortedSeq(_)
SortedSeq(S) ==
    IF S = {} THEN <<>>
    ELSE LET m == CHOOSE x \in S : \A y \in S : x <= y
         IN  <<m>> \o SortedSeq(S \ {m})

\* actual and described signals agree in type, indices and severity
SameSignals(actual, described) ==
    /\ Len(actual) = Len(described)
    /\ \A k \in 1..Len(actual) :
           /\ DOMAIN actual[k] = SignalFields
           /\ actual[k].type = described[k].type
           /\ actual[k].dataPoints = described[k].dataPoints
           /\ actual[k].severity = described[k].severity

\* 0-based indices of the points outside the limits
Rule1Violations(data, limits) ==
    {i \in 0..(Len(data) - 1) :
        \/ Exceeds(data[i + 1], limits.upperLimit)
        \/ Undercuts(data[i + 1], limits.lowerLimit)}

Rule1Described(data, limits) ==
    LET at == SortedSeq(Rule1Violations(data, limits))
    IN  [k \in 1..Len(at) |->
            [type |-> "rule1", dataPoints |-> <<at[k]>>, severity |-> "high"]]

\* the windows i .. i+size-1 from the 0-based start i on: a signal when at
\* least `needed` values exceed `upper`, another when at least `needed`
\* values undercut `lower`
RECURSIVE WindowsDescribed(_, _, _, _, _, _, _)
WindowsDescribed(data, size, needed, upper, lower, type, i) ==
    IF i + size > Len(data) THEN <<>>
    ELSE
    LET sig == [type |-> type, dataPoints |-> [j \in 1..size |-> i + j - 1],
                severity |-> "moderate"]
        above == Cardinality({j \in 1..size : Exceeds(data[i + j], upper)})
        below == Cardinality({j \in 1..size : Undercuts(data[i + j], lower)})
    IN  (IF above >= needed THEN <<sig>> ELSE <<>>)
        \o (IF below >= needed THEN <<sig>> ELSE <<>>)
        \o WindowsDescribed(data, size, needed, upper, lower, type, i + 1)

Rule2Described(data, limits) ==
    WindowsDescribed(data, 3, 2, calculate_sigma_lines(limits).twoSigmaUpper,
                     calculate_sigma_lines(limits).twoSigmaLower, "rule2", 0)

Rule3Described(data, limits) ==
    WindowsDescribed(data, 5, 4, calculate_sigma_lines(limits).oneSigmaUpper,
                     calculate_sigma_lines(limits).oneSigmaLower, "rule3", 0)

\* the maximal runs a .. b (0-based) of points on one side of the average
SameSide(data, average, i, j) ==
    Exceeds(data[i + 1], average) <=> Exceeds(data[j + 1], average)

MaximalRuns(data, average) ==
    {r \in (0..(Len(data) - 1)) \X (0..(Len(data) - 1)) :
        /\ r[1] <= r[2]
        /\ \A i \in r[1]..r[2] : SameSide(data, average, r[1], i)
        /\ r[1] = 0 \/ ~SameSide(data, average, r[1] - 1, r[1])
        /\ r[2] = Len(data) - 1 \/ ~SameSide(data, average, r[2], r[2] + 1)}

Rule4Described(data, average) ==
    LET long   == {r \in MaximalRuns(data, average) : r[2] - r[1] + 1 >= 8}
        starts == SortedSeq({r[1] : r \in long})
        EndOf(a) == CHOOSE b \in 0..(Len(data) - 1) : <<a, b>> \in long
    IN  [k \in 1..Len(starts) |->
            [type |-> "rule4",
             dataPoints |-> [j \in 1..(EndOf(starts[k]) - starts[k] + 1) |->
                                starts[k] + j - 1],
             severity |-> "low"]]

\* C4 as stated: detect_all_signals returns, for any series and valid
\* limits, the rule-1, rule-2, rule-3 and rule-4 signals concatenated in
\* that order, each in ascending index order, nothing merged.
C4_AsStated ==
    DetectorDone("detect_all_signals") =>
        /\ Returned(response)
        /\ SameSignals(response.value,
               Rule1Described(request.data, request.limits)
               \o Rule2Described(request.data, request.limits)
               \o Rule3Described(request.data, request.limits)
               \o Rule4Described(request.data, request.limits.average))

\* C5: rule 1 emits exactly one high-severity signal with dataPoints = [i]
\* for every index i whose value is above upperLimit or below lowerLimit,
\* none for any other index (a value equal to a limit is not flagged), so
\* the number of signals is the number of violating indices.
C5_Rule1Signals ==
    DetectorDone("detect_rule1_signals") =>
        /\ Returned(response)
        /\ SameSignals(response.value, Rule1Described(request.data, request.limits))
        /\ Len(response.value)
               = Cardinality(Rule1Violations(request.data, request.limits))

\* rule 1 flagged a point and passed over one that sits exactly on a limit
C5_Witness ==
    /\ DetectorDone("detect_rule1_signals")
    /\ Returned(response)
    /\ Len(response.value) >= 1
    /\ \E k \in 1..Len(request.data) :
           /\ RatInt(request.data[k]) = request.limits.lowerLimit
           /\ \A j \in 1..Len(response.value) :
                  response.value[j].dataPoints # <<k - 1>>

\* C6 as stated: rules 2 and 3 slide a window of 3 (5) by one over the
\* series and emit, per window, a signal with the window's indices in
\* dataPoints when at least 2 (4) values lie beyond the upper two-sigma
\* (one-sigma) line and another when as many lie beyond the lower one; a
\* series shorter than the window yields no signal.
C6_AsStated ==
    /\ DetectorDone("detect_rule2_signals") =>
           /\ Returned(response)
           /\ SameSignals(response.value,
                          Rule2Described(request.data, request.limits))
    /\ DetectorDone("detect_rule3_signals") =>
           /\ Returned(response)
           /\ SameSignals(response.value,
                          Rule3Described(request.data, request.limits))

\* C7 as stated: rule 4 emits exactly one signal per maximal run of at
\* least 8 points on one side of the average (a value equal to the average
\* is below), dataPoints being the whole run, the run at the end of the
\* series included; an alternating series yields none.
C7_AsStated ==
    DetectorDone("detect_rule4_signals") =>
        /\ Returned(response)
        /\ SameSignals(response.value,
                       Rule4Described(request.data, request.limits.average))

HandlerDone(name) == pc = "returned" /\ request.op = name

\* the series and the limits a request reaches signal detection with, when
\* it gets that far: the baseline's limits were computed
DetectionInput(req) ==
    IF req.op = "calculate_pbc" /\ req.metricType = "cycle_time"
    THEN LET values == ValuesOf(req.data) IN
         [values |-> values,
          limits |-> IF Len(values) < 3 THEN Raise("HTTPException", "too few points")
                     ELSE calculate_natural_process_limits(
                              SubSeq(values, 1, PyMin(req.baselinePeriod, Len(values))))]
    ELSE LET analysis == calculate_throughput_analysis(
                             req.data, IF req.op = "calculate_pbc" THEN "weekly"
                                       ELSE req.period)
             values   == IF Raised(analysis) THEN <<>>
                         ELSE ValuesOf(create_throughput_pbc_data(analysis.value))
         IN  [values |-> values,
              limits |-> IF Len(values) < 3 THEN Raise("HTTPException", "too few periods")
                         ELSE calculate_natural_process_limits(
                                  SubSeq(values, 1, PyMin(req.baselinePeriod, Len(values))))]

\* C9 as stated: in calculate_pbc and in calculate_throughput, once the
\* limits are computed, an exception raised inside signal detection counts
\* as zero signals: the response is produced with the limits and an empty
\* signal list, the request does not fail.
C9_AsStated ==
    (pc = "returned" /\ request.op \in {"calculate_pbc", "calculate_throughput"}) =>
        LET input == DetectionInput(request) IN
        (Returned(input.limits)
            /\ Raised(detect_all_signals(input.values, input.limits.value)))
        => /\ Returned(response)
           /\ response.value.limits = input.limits.value
           /\ response.value.signals = <<>>

\* C10 as stated: when the baseline slice of calculate_pbc holds identical
\* values the request is rejected with status 400 and the no-variation
\* guidance, not with an internal error (500) and not with the message of the
\* too-few-points rejection.
C10_AsStated ==
    (HandlerDone("calculate_pbc") /\ request.metricType = "cycle_time"
        /\ Len(request.data) >= 3
        /\ AllIdentical(SubSeq(ValuesOf(request.data), 1,
                               PyMin(request.baselinePeriod, Len(request.data)))))
    => /\ Raised(response)
       /\ response.exc = "HTTPException"
       /\ response.status_code = 400
       /\ response.detail = NoVariationDetail

\* C17 as stated: a request with the default detectionRules, RULE1 and
\* RULE4, is analysed with exactly these rules: the signals of its response
\* are the rule-1 and the rule-4 signals of the series under the limits of
\* the response, and no rule-2 or rule-3 signal.
C17_AsStated ==
    (HandlerDone("calculate_pbc") /\ request.metricType = "cycle_time"
        /\ request.detectionRules = <<"rule1", "rule4">> /\ Returned(response))
    => SameSignals(response.value.signals,
           Rule1Described(ValuesOf(request.data), response.value.limits)
           \o Rule4Described(ValuesOf(request.data), response.value.limits.average))

(***************************************************************************)
(* Properties of calculate_throughput_analysis.                            *)
(***************************************************************************)
AnalysisDone ==
    pc = "returned" /\ request.op = "calculate_throughput_analysis"

\* the first day of the month after the month of the calendar date
FirstOfNextMonth(date) ==
    IF date.month = 12 THEN [year |-> date.year + 1, month |-> 1, day |-> 1]
    ELSE [year |-> date.year, month |-> date.month + 1, day |-> 1]

\* the bucket starts on a period boundary and ends one period later
PeriodAligned(bucket, period) ==
    CASE period = "daily"   -> bucket.periodEnd = bucket.periodStart + 1
      [] period = "weekly"  -> /\ bucket.periodStart % 7 = 0
                               /\ bucket.periodEnd = bucket.periodStart + 7
      [] period = "monthly" -> /\ ToDate(bucket.periodStart).day = 1
                               /\ ToDate(bucket.periodEnd) =
                                      FirstOfNextMonth(ToDate(bucket.periodStart))

InBucket(bucket, timestamp) ==
    bucket.periodStart <= timestamp /\ timestamp < bucket.periodEnd

\* C12: for >= 3 events in any order and any granularity the buckets of
\* calculate_throughput_analysis are period-aligned, contiguous and
\* non-overlapping, the first one holds the earliest event, a bucket that
\* starts in December ends on 1 January of the next year, every event is
\* counted in exactly one bucket (the one with periodStart <= timestamp <
\* periodEnd) and the item counts add up to the number of events.
C12_Buckets ==
    (AnalysisDone /\ Len(request.completion_data) >= 3) =>
        /\ Returned(response)
        /\ LET buckets == response.value.throughputData
               events  == request.completion_data
               period  == request.period
           IN  /\ buckets # <<>>
               /\ \A i \in 1..Len(buckets) :
                      /\ buckets[i].period = period
                      /\ PeriodAligned(buckets[i], period)
                      /\ buckets[i].itemCount =
                             Cardinality({j \in 1..Len(events) :
                                 InBucket(buckets[i], events[j].timestamp)})
                      /\ Len(buckets[i].itemsCompleted) = buckets[i].itemCount
               /\ \A i \in 1..(Len(buckets) - 1) :
                      buckets[i + 1].periodStart = buckets[i].periodEnd
               /\ \A j \in 1..Len(events) :
                      /\ buckets[1].periodStart <= events[j].timestamp
                      /\ Cardinality({i \in 1..Len(buckets) :
                             InBucket(buckets[i], events[j].timestamp)}) = 1
               /\ \E j \in 1..Len(events) : InBucket(buckets[1], events[j].timestamp)
               /\ Sum([i \in 1..Len(buckets) |-> buckets[i].itemCount]) = Len(events)
               /\ response.value.totalItemsCompleted = Len(events)
               /\ response.value.totalPeriods = Len(buckets)

\* unsorted events by months, with a bucket that starts on 2024-12-01 and
\* ends on 2025-01-01, an event on that last day in the next bucket
C12_Witness ==
    /\ AnalysisDone /\ Returned(response) /\ request.period = "monthly"
    /\ Len(request.completion_data) >= 3
    /\ request.completion_data[1].timestamp > request.completion_data[2].timestamp
    /\ \E i \in 1..(Len(response.value.throughputData) - 1) :
           /\ ToDate(response.value.throughputData[i].periodStart) =
                  [year |-> 2024, month |-> 12, day |-> 1]
           /\ response.value.throughputData[i].periodEnd = 366
           /\ response.value.throughputData[i + 1].itemCount > 0

\* the number of the period a day lies in: days, weeks from Monday
\* 2024-01-01 (day 0), months
PeriodNumber(timestamp, period) ==
    CASE period = "daily"   -> timestamp
      [] period = "weekly"  -> timestamp \div 7
      [] period = "monthly" -> 12 * ToDate(timestamp).year + ToDate(timestamp).month

Earliest(events) ==
    CHOOSE t \in {events[j].timestamp : j \in 1..Len(events)} :
        \A j \in 1..Len(events) : t <= events[j].timestamp

Latest(events) ==
    CHOOSE t \in {events[j].timestamp : j \in 1..Len(events)} :
        \A j \in 1..Len(events) : events[j].timestamp <= t

\* C25: the last bucket calculate_throughput_analysis returns has
\* itemCount >= 1 and holds the latest event, and the number of buckets is
\* the number of periods from the period of the first event to the period
\* of the last event, both included: the buckets without items between them
\* are kept.
C25_Buckets ==
    (AnalysisDone /\ Len(request.completion_data) >= 3) =>
        /\ Returned(response)
        /\ response.value.throughputData # <<>>
        /\ response.value.throughputData[Len(response.value.throughputData)].itemCount >= 1
        /\ InBucket(response.value.throughputData[Len(response.value.throughputData)],
                    Latest(request.completion_data))
        /\ Len(response.value.throughputData)
               = PeriodNumber(Latest(request.completion_data), request.period)
                 - PeriodNumber(Earliest(request.completion_data), request.period) + 1

\* weeks with events, then a week without, then a week with the latest
\* event: the empty week is a bucket of the response
C25_Witness ==
    /\ AnalysisDone /\ Returned(response) /\ request.period = "weekly"
    /\ Len(request.completion_data) >= 3
    /\ \E i \in 2..(Len(response.value.throughputData) - 1) :
           response.value.throughputData[i].itemCount = 0
    /\ response.value.throughputData[Len(response.value.throughputData)].itemCount >= 1

\* C13 as stated: the sample of test_throughput (5 events on days 0-4, 8 on
\* days 7-14, 3 on days 14-16 after Monday 2024-01-01) is aggregated by
\* weeks into exactly 3 buckets with itemCount = [5, 8, 3], average 16/3
\* and median 5.
C13_AsStated ==
    (AnalysisDone /\ request.completion_data = TestThroughputSample
        /\ request.period = "weekly")
    => /\ Returned(response)
       /\ Len(response.value.throughputData) = 3
       /\ [i \in 1..3 |-> response.value.throughputData[i].itemCount] = <<5, 8, 3>>
       /\ RatIs(response.value.averageThroughput, 16, 3)
       /\ RatIs(response.value.medianThroughput, 5, 1)

\* C14 as stated: predictabilityScore is 0 whenever the mean item count is 0
\* or only one bucket exists, and it always lies in [0, 1].  The score is
\* 1 - sqrt(q): it is 0 exactly when q = 1 and lies in [0, 1] exactly when
\* 0 <= q <= 1.
C14_AsStated ==
    (AnalysisDone /\ Returned(response)) =>
        LET q == response.value.predictabilityScore.one_minus_sqrt_of IN
        /\ RatLe(RatInt(0), q) /\ RatLe(q, RatInt(1))
        /\ (response.value.averageThroughput.n = 0
               \/ Len(response.value.throughputData) = 1)
           => RatIs(q, 1, 1)

(***************************************************************************)
(* Properties of recommend_baseline_period.                                *)
(***************************************************************************)
\* C18: recommend_baseline_period(n) is max(3, n) for n < 6, n for
\* 6 <= n <= 20 and 20 for n > 20 (4 -> 4, 15 -> 15, 30 -> 20); for every
\* integer the result lies in [3, 20], and the call changes nothing but its
\* result.
C18_Recommendation ==
    (pc = "returned" /\ request.op = "recommend_baseline_period") =>
        LET n == request.data_length
            r == response.value
        IN  /\ Returned(response)
            /\ n < 6 => (r >= 3 /\ r >= n /\ r \in {3, n})
            /\ (6 <= n /\ n <= 20) => r = n
            /\ n > 20 => r = 20
            /\ 3 <= r /\ r <= 20
            /\ n = 4 => r = 4
            /\ n = 15 => r = 15
            /\ n = 30 => r = 20

\* a length under 3, lifted to 3
C18_Witness ==
    /\ pc = "returned" /\ request.op = "recommend_baseline_period"
    /\ request.data_length < 3
    /\ response.value = 3

(***************************************************************************)
(* Properties of the DynamicBaselineCalculator.                            *)
(***************************************************************************)
BaselineDone(name) == pc = "returned" /\ request.op = name

\* C15: for every input of at least 6 observations and every current
\* period, the recommendation returned by analyze_dynamic_baseline has
\* 6 <= recommendedPeriod <= 20, and so has the recommendation generated
\* from any stability score, change points, seasonal pattern and signal
\* density; with fewer than 6 observations analyze_dynamic_baseline raises
\* ValueError and returns no recommendation.
C15_RecommendedPeriod ==
    /\ BaselineDone("analyze_dynamic_baseline") =>
           IF Len(request.data) >= 6
           THEN /\ Returned(response)
                /\ response.value.recommendation.recommendedPeriod \in 6..20
           ELSE response = Raise("ValueError",
                                 "Minimum 6 data points required for baseline analysis")
    /\ BaselineDone("_generate_baseline_recommendation") =>
           /\ Returned(response)
           /\ response.value.recommendedPeriod \in 6..20

\* 18 observations in a stable process got the recommendation of 20
C15_Witness ==
    /\ BaselineDone("analyze_dynamic_baseline")
    /\ Len(request.data) = 18
    /\ Returned(response)
    /\ response.value.recommendation.stability = "stable"
    /\ response.value.recommendation.recommendedPeriod = 20

\* C20 as stated: any two indices in the list returned by the change-point
\* detection are more than 3 apart, and the list is strictly ascending.
C20_AsStated ==
    BaselineDone("_detect_process_changes") =>
        /\ Returned(response)
        /\ \A i \in 1..Len(response.value), j \in 1..Len(response.value) :
               i < j => response.value[j] - response.value[i] > 3

\* the limits of the first min(12, n) values
DensityBaseline(values) ==
    calculate_natural_process_limits(SubSeq(values, 1, PyMin(12, Len(values))))

\* the signals detected over the full series with these limits
DensityDetection(values) ==
    IF Raised(DensityBaseline(values)) THEN DensityBaseline(values)
    ELSE detect_all_signals(values, DensityBaseline(values).value)

C16_AsStated ==
    BaselineDone("evaluate_alternative_baselines") =>
        /\ Returned(response)
        /\ {response.value[k].period : k \in 1..Len(response.value)}
               = {request.periods_to_test[j] : j \in
                     {i \in 1..Len(request.periods_to_test) :
                         /\ 6 <= request.periods_to_test[i]
                         /\ request.periods_to_test[i] <= Len(request.data)
                         /\ ~AllIdentical(SubSeq(ValuesOf(request.data), 1,
                                                 request.periods_to_test[i]))}}

(***************************************************************************)
(* Properties of _generate_baseline_recommendation.                        *)
(***************************************************************************)
RecommendationDone ==
    BaselineDone("_generate_baseline_recommendation") /\ Returned(response)

\* n - most recent change index
PointsSinceChange ==
    Len(request.data)
        - (CHOOSE c \in {request.change_points[k] : k \in 1..Len(request.change_points)} :
               \A k \in 1..Len(request.change_points) : request.change_points[k] <= c)

\* no seasonal and no signal-density adjustment applies to the request
Unadjusted ==
    /\ request.seasonal_pattern \notin {"weekly", "monthly"}
    /\ RatLe(Rat(5, 100), request.signal_density)
    /\ RatLe(request.signal_density, Rat(2, 10))

\* |recommendedPeriod - currentPeriod| <= 2 in the response
CloseToCurrent ==
    /\ response.value.recommendedPeriod - response.value.currentPeriod <= 2
    /\ response.value.currentPeriod - response.value.recommendedPeriod <= 2

\* C21: with change points, whatever the stability score, shouldRecalculate
\* is true exactly when n - most recent change index >= 6, and the
\* recommendation before adjustments is min(n - most recent change index, 20)
\* in that case and 6 with confidence 0.6 otherwise (seen where no
\* adjustment applies; the confidence where the period is not within 2 of
\* the current one and the density is not high).
C21_ChangeBased ==
    (RecommendationDone /\ request.change_points # <<>>) =>
        /\ response.value.shouldRecalculate = (PointsSinceChange >= 6)
        /\ Unadjusted =>
               response.value.recommendedPeriod =
                   IF PointsSinceChange >= 6
                   THEN (IF PointsSinceChange < 20 THEN PointsSinceChange ELSE 20)
                   ELSE 6
        /\ (~CloseToCurrent /\ RatLe(request.signal_density, Rat(2, 10))) =>
               response.value.confidence =
                   IF PointsSinceChange >= 6 THEN Rat(8, 10) ELSE Rat(6, 10)

\* exactly 6 points since the change and a stability score below 0.6: the
\* recommendation is 6 and shouldRecalculate is true
C21_Witness ==
    /\ RecommendationDone
    /\ request.change_points # <<>>
    /\ PointsSinceChange = 6
    /\ RatLt(request.stability_score, Rat(6, 10))
    /\ request.current_period = 20
    /\ Unadjusted
    /\ response.value.recommendedPeriod = 6
    /\ response.value.shouldRecalculate

\* C22: without change points the stability score chooses the
\* recommendation: score >= 0.8 gives min(20, n) and shouldRecalculate =
\* (currentPeriod < 0.8 * min(20, n)); 0.6 <= score < 0.8 gives 12 and
\* shouldRecalculate = (|currentPeriod - 12| > 3); score < 0.6 gives 6 with
\* confidence 0.5 and shouldRecalculate = (currentPeriod > 9).
\* shouldRecalculate is that of the base value on every response, whatever
\* adjustments follow; the period is seen where no adjustment applies (and
\* n >= 6), the confidence where the period is not within 2 of the current
\* one and the density is not high.
C22_StabilityBased ==
    (RecommendationDone /\ request.change_points = <<>>) =>
        IF RatLe(Rat(8, 10), request.stability_score)
        THEN /\ response.value.shouldRecalculate =
                    (10 * request.current_period
                        < 8 * (IF Len(request.data) < 20 THEN Len(request.data) ELSE 20))
             /\ (Unadjusted /\ Len(request.data) >= 6) =>
                    response.value.recommendedPeriod =
                        IF Len(request.data) < 20 THEN Len(request.data) ELSE 20
        ELSE IF RatLe(Rat(6, 10), request.stability_score)
        THEN /\ response.value.shouldRecalculate =
                    (request.current_period - 12 > 3 \/ 12 - request.current_period > 3)
             /\ Unadjusted => response.value.recommendedPeriod = 12
        ELSE /\ response.value.shouldRecalculate = (request.current_period > 9)
             /\ Unadjusted => response.value.recommendedPeriod = 6
             /\ (~CloseToCurrent /\ RatLe(request.signal_density, Rat(2, 10))) =>
                    response.value.confidence = Rat(5, 10)

\* a stable process of 20 or more points at the current period 16, with
\* weekly seasonality and high signal density: the period is adjusted to 12
\* and shouldRecalculate stays false
C22_Witness ==
    /\ RecommendationDone
    /\ request.change_points = <<>>
    /\ RatLe(Rat(8, 10), request.stability_score)
    /\ Len(request.data) >= 20
    /\ request.current_period = 16
    /\ request.seasonal_pattern = "weekly"
    /\ RatLt(Rat(2, 10), request.signal_density)
    /\ response.value.recommendedPeriod = 12
    /\ ~response.value.shouldRecalculate

\* the base recommendation of the request, as C21 and C22 give it
BasePeriod ==
    IF request.change_points # <<>>
    THEN (IF PointsSinceChange < 6 THEN 6
          ELSE IF PointsSinceChange < 20 THEN PointsSinceChange ELSE 20)
    ELSE IF RatLe(Rat(8, 10), request.stability_score)
    THEN (IF Len(request.data) < 20 THEN Len(request.data) ELSE 20)
    ELSE IF RatLe(Rat(6, 10), request.stability_score) THEN 12
    ELSE 6

\* WEEKLY: max(1, r // 7) * 7 when that is <= 20; MONTHLY: 14 when r < 14
AfterSeasonal(r) ==
    IF request.seasonal_pattern = "weekly"
    THEN (IF r < 14 THEN 7 ELSE IF (r \div 7) * 7 <= 20 THEN (r \div 7) * 7 ELSE r)
    ELSE IF request.seasonal_pattern = "monthly" /\ r < 14 THEN 14
    ELSE r

\* density > 0.2: max(6, r - 2); density < 0.05: min(20, r + 2)
AfterDensity(r) ==
    IF RatLt(Rat(2, 10), request.signal_density)
    THEN (IF r - 2 < 6 THEN 6 ELSE r - 2)
    ELSE IF RatLt(request.signal_density, Rat(5, 100))
    THEN (IF r + 2 > 20 THEN 20 ELSE r + 2)
    ELSE r

Clamped(r) == IF r < 6 THEN 6 ELSE IF r > 20 THEN 20 ELSE r

\* C23: the final recommendedPeriod is the base recommendation after the
\* seasonal adjustment, then the signal-density adjustment, then the
\* clamping to [6, 20], in this order.
C23_Adjustments ==
    RecommendationDone =>
        response.value.recommendedPeriod
            = Clamped(AfterDensity(AfterSeasonal(BasePeriod)))

\* a base of 20 with weekly seasonality and high signal density ends at
\* 14 - 2 = 12; the density adjustment first would end at 14
C23_Witness ==
    /\ RecommendationDone
    /\ BasePeriod = 20
    /\ request.current_period = 1
    /\ request.seasonal_pattern = "weekly"
    /\ RatLt(Rat(2, 10), request.signal_density)
    /\ response.value.recommendedPeriod = 12

\* the confidence the request starts with: 0.8, 0.6 with too few points
\* since a change, 0.5 on low stability without a change
BaseConfidence ==
    IF request.change_points # <<>>
    THEN (IF PointsSinceChange >= 6 THEN Rat(8, 10) ELSE Rat(6, 10))
    ELSE IF RatLt(request.stability_score, Rat(6, 10)) THEN Rat(5, 10)
    ELSE Rat(8, 10)

\* C24: the confidence of every recommendation lies in [0, 1]; it is the
\* starting confidence, times 0.9 exactly on a signal density above 0.2,
\* times 1.1 (capped at 1) exactly when the final recommendedPeriod is within
\* 2 of currentPeriod.
C24_Confidence ==
    RecommendationDone =>
        /\ RatLe(RatInt(0), response.value.confidence)
        /\ RatLe(response.value.confidence, RatInt(1))
        /\ response.value.confidence =
               Min1(RatMul(RatMul(BaseConfidence,
                                  IF RatLt(Rat(2, 10), request.signal_density)
                                  THEN Rat(9, 10) ELSE RatInt(1)),
                           IF CloseToCurrent THEN Rat(11, 10) ELSE RatInt(1)))

\* high density and a period within 2 of the current one:
\* 0.8 * 0.9 * 1.1 = 0.792
C24_Witness ==
    /\ RecommendationDone
    /\ RatLt(Rat(2, 10), request.signal_density)
    /\ CloseToCurrent
    /\ response.value.confidence = Rat(792, 1000)

\* the weekly adjustment is reported in the reasoning of a recommendation
ReportsWeeks(recommendation) ==
    \E i \in 1..Len(recommendation.reasoning), k \in 1..2 :
        recommendation.reasoning[i] =
            "Weekly seasonality detected. Adjusted baseline to "
                \o ToString(k) \o " complete week(s)."

\* C29 as stated: for every input of n >= 6 observations the
\* recommendedPeriod returned by analyze_dynamic_baseline is at most n, so
\* validate_baseline_period accepts it for the same series.
C29_AsStated ==
    (BaselineDone("analyze_dynamic_baseline") /\ Len(request.data) >= 6) =>
        /\ Returned(response)
        /\ response.value.recommendation.recommendedPeriod <= Len(request.data)
        /\ Returned(validate_baseline_period(
                        Len(request.data),
                        response.value.recommendation.recommendedPeriod))

\* C30 as stated: whenever the seasonal pattern is weekly and the
\* recommendation reports "Adjusted baseline to k complete week(s)", the
\* recommendedPeriod returned is 7 or 14.
C30_AsStated ==
    /\ (RecommendationDone /\ request.seasonal_pattern = "weekly"
            /\ ReportsWeeks(response.value))
           => response.value.recommendedPeriod \in {7, 14}
    /\ (/\ BaselineDone("analyze_dynamic_baseline") /\ Returned(response)
        /\ response.value.seasonalityAnalysis.dominant_pattern = "weekly"
        /\ ReportsWeeks(response.value.recommendation))
           => response.value.recommendation.recommendedPeriod \in {7, 14}

(***************************************************************************)
(* Properties of _detect_process_changes.                                  *)
(***************************************************************************)
\* max(6, n // 4)
ChangeWindow(n) == IF n \div 4 > 6 THEN n \div 4 ELSE 6

\* every index of the sequence lies in [window, n - window) and has at
\* least 7 points from it to the end
FarFromEnds(change_points, n) ==
    \A k \in 1..Len(change_points) :
        /\ ChangeWindow(n) <= change_points[k]
        /\ change_points[k] < n - ChangeWindow(n)
        /\ n - change_points[k] >= 7

\* C28: every index cp returned by _detect_process_changes satisfies
\* window <= cp < n - window with window = max(6, n // 4), so n - cp >= 7,
\* and none is returned for n <= 12; hence a recommendation of
\* analyze_dynamic_baseline with change points always takes the branch
\* "Using n - cp points since last change" with shouldRecalculate = true,
\* never the branch that forces the period to 6.
C28_ChangePoints ==
    /\ BaselineDone("_detect_process_changes") =>
           /\ FarFromEnds(response.value, Len(request.values))
           /\ Len(request.values) <= 12 => response.value = <<>>
    /\ (/\ BaselineDone("analyze_dynamic_baseline") /\ Returned(response)
        /\ response.value.processChangePoints # <<>>) =>
           /\ FarFromEnds(response.value.processChangePoints, Len(request.data))
           /\ response.value.recommendation.shouldRecalculate = TRUE
           /\ \E k \in 1..Len(response.value.processChangePoints) :
                  response.value.recommendation.reasoning[1] =
                      "Process change detected at point "
                          \o ToString(response.value.processChangePoints[k])
                          \o ". Using "
                          \o ToString(Len(request.data)
                                          - response.value.processChangePoints[k])
                          \o " points since last change."

\* an analysis whose latest change point is as near the end as can be: 7
\* points from it to the end
C28_Witness ==
    /\ BaselineDone("analyze_dynamic_baseline") /\ Returned(response)
    /\ response.value.processChangePoints # <<>>
    /\ \E k \in 1..Len(response.value.processChangePoints) :
           Len(request.data) - response.value.processChangePoints[k] = 7
    /\ response.value.recommendation.shouldRecalculate = TRUE

(***************************************************************************)
(* Properties of _analyze_variation_trend.                                 *)
(***************************************************************************)
\* C27 as stated: each window of the rolling standard deviation holds
\* exactly w = max(5, n // 4) consecutive values, and the trend is "stable"
\* whenever n < 10 or there are fewer than 3 windows.
C27_AsStated ==
    BaselineDone("_analyze_variation_trend") =>
        /\ Len(request.values) >= 10 =>
               \A k \in 1..Len(VariationWindows(request.values)) :
                   Len(VariationWindows(request.values)[k])
                       = VariationWindowSize(request.values)
        /\ (\/ Len(request.values) < 10
            \/ Len(VariationWindows(request.values)) < 3)
               => response.value = "stable"

(***************************************************************************)
(* Properties of repeated calls.                                           *)
(***************************************************************************)
\* C11 as stated: a call repeated with the same request yields the output
\* of the earlier call in every field, whatever the time of the call.
C11_AsStated ==
    (pc = "returned" /\ earlier # NoResponse) => response = earlier

=============================================================================
